---- MODULE Spec2Model ----
(***************************************************************************)
(* State-machine model of the sketchpad editor: the useSketchpad document  *)
(* hook (strokes, undo/redo stacks, in-progress stroke, selection, focus), *)
(* the geometry helpers of drawingUtils.ts and the pointer/button handlers *)
(* of SketchScreen.                                                        *)
(*                                                                         *)
(* Conventions                                                             *)
(*  - A React state cell is a variable.  Every handler runs to completion  *)
(*    and the component re-renders before the next event is delivered, so  *)
(*    the `strokes` / `selection` captured by a callback's closure are the *)
(*    current ones: one handler call is one atomic action.                 *)
(*  - Each function of the hook and each handler of the screen is an       *)
(*    operator from the state before the call (a record d of the cells)    *)
(*    to the state after it; an action applies one to the current state.   *)
(*  - null / undefined is the empty sequence Null, a present value v is    *)
(*    the one-element sequence <<v>>; a null id is NoId.                   *)
(*  - nanoid() is a draw from a counter (nextId): ids are fresh.           *)
(*  - Lengths are integers.  strokeWidth is held in tenths of a unit       *)
(*    (currentWidth * 1.5 is exact), pressure in hundredths, path          *)
(*    coordinates in tenths (the 0.1 offset and the midpoints are exact).  *)
(***************************************************************************)
EXTENDS Integers, Sequences, FiniteSets, TLC

VARIABLES
    strokes,        \* useState<Stroke[]>            committed strokes, draw order
    undoStack,      \* useState<Stroke[][]>          "past"
    redoStack,      \* useState<Stroke[][]>          "future"
    currentStroke,  \* useState<Stroke | null>       in-progress stroke
    currentTool,    \* useState<BrushType>
    currentColor,   \* useState<string>
    currentWidth,   \* useState<number>
    selection,      \* useState<string[]>
    focusedId,      \* useState<string | null>
    isDirty,        \* useState(false)
    nextId,         \* the next value nanoid() returns
    touching,       \* a pan gesture is active (between grant and release/terminate)
    dragStart,      \* dragStartRef.current
    run,            \* observation: the current run of commits followed by undo calls
    persist         \* the saving state of the screen, the storage hook and AsyncStorage

vars == <<strokes, undoStack, redoStack, currentStroke, currentTool, currentColor,
          currentWidth, selection, focusedId, isDirty, nextId, touching, dragStart,
          run, persist>>

----------------------------------------------------------------------------
(* Bounds of the exploration *)

\* strokes started in one session (draws of nanoid)
MaxStrokes == 2
\* points captured in one gesture
MaxPoints == 2
\* snapshots on the undo stack in one session
MaxHist == 3
\* strokes started in the deep-history scenario
MaxDeep == 52
\* the saves started in the scenario of the saves in flight
MaxSaves == 2
\* points captured in one gesture of the scenario of the paths
MaxPathPoints == 4
\* points of a stroke and strokes drawn in the scenario of the export
MaxExportPoints == 3
MaxExportStrokes == 2
\* strokes of the document in the scenario of the thumbnail
MaxThumbStrokes == 11

(* Program constants *)

\* slice(-50) in saveStateToUndo
HistoryCap == 50
DRAG_THRESHOLD == 5
\* findNearestStrokeId(x, y, strokes, 20) in onPanResponderMove
EraserRadius == 20
\* findNearestStrokeId(x, y, strokes, 30) in onPanResponderRelease
TapRadius == 30
\* useState<number>(5)
InitialWidth == 5
\* path coordinates are held in units of 0.1, the offset of the one-point path
PathUnit == 10

Null == << >>
NoId == 0

BrushType == {"pen", "marker", "calligraphy", "eraser", "select"}

----------------------------------------------------------------------------
(* Array helpers *)

\* Array.prototype.slice(-n)
LastN(s, n) == IF Len(s) <= n THEN s ELSE SubSeq(s, Len(s) - n + 1, Len(s))

\* Array.prototype.slice(0, -1)
ButLast(s) == SubSeq(s, 1, Len(s) - 1)

\* Array.prototype.includes
Includes(s, e) == \E i \in 1..Len(s) : s[i] = e

\* strokes.map(s => s.id)
Ids(ss) == [i \in 1..Len(ss) |-> ss[i].id]

IdSet(ss) == {ss[i].id : i \in 1..Len(ss)}

----------------------------------------------------------------------------
(* drawingUtils.ts *)

\* getSvgPathFromPoints with each curve ending at the next point instead of
\* the midpoint
getSvgPathFromPoints_toNext(points) ==
    IF Len(points) = 0 THEN << >>
    ELSE IF Len(points) = 1
    THEN << <<"M", points[1].x * PathUnit, points[1].y * PathUnit>>,
            <<"L", points[1].x * PathUnit, points[1].y * PathUnit + 1>> >>
    ELSE << <<"M", points[1].x * PathUnit, points[1].y * PathUnit>> >>
         \o [i \in 1..(Len(points) - 2) |->
               <<"Q", points[i + 1].x * PathUnit, points[i + 1].y * PathUnit,
                 points[i + 2].x * PathUnit, points[i + 2].y * PathUnit>>]
         \o << <<"L", points[Len(points)].x * PathUnit, points[Len(points)].y * PathUnit>> >>

getSvgPathFromPoints(points) ==
    IF Len(points) = 0 THEN << >>
    ELSE IF Len(points) = 1
    THEN << <<"M", points[1].x * PathUnit, points[1].y * PathUnit>>,
            <<"L", points[1].x * PathUnit, points[1].y * PathUnit + 1>> >>
    ELSE << <<"M", points[1].x * PathUnit, points[1].y * PathUnit>> >>
         \o [i \in 1..(Len(points) - 2) |->
               <<"Q", points[i + 1].x * PathUnit, points[i + 1].y * PathUnit,
                 ((points[i + 1].x + points[i + 2].x) * PathUnit) \div 2,
                 ((points[i + 1].y + points[i + 2].y) * PathUnit) \div 2>>]
         \o << <<"L", points[Len(points)].x * PathUnit, points[Len(points)].y * PathUnit>> >>

Min(a, b) == IF a <= b THEN a ELSE b
Max(a, b) == IF a >= b THEN a ELSE b

\* the running minimum / maximum of the loop over stroke.points
MinOf(S) == CHOOSE v \in S : \A w \in S : v <= w
MaxOf(S) == CHOOSE v \in S : \A w \in S : v >= w

getStrokeBoundingBox(stroke) ==
    IF Len(stroke.points) = 0
    THEN [minX |-> 0, minY |-> 0, maxX |-> 0, maxY |-> 0]
    ELSE [minX |-> MinOf({stroke.points[i].x : i \in 1..Len(stroke.points)}),
          minY |-> MinOf({stroke.points[i].y : i \in 1..Len(stroke.points)}),
          maxX |-> MaxOf({stroke.points[i].x : i \in 1..Len(stroke.points)}),
          maxY |-> MaxOf({stroke.points[i].y : i \in 1..Len(stroke.points)})]

\* Array.prototype.slice(0, n)
FirstN(s, n) == IF Len(s) <= n THEN s ELSE SubSeq(s, 1, n)

\* SVG text is held as the sequence of its tags, the empty string as the empty
\* sequence.  toFixed(2) prints hundredths, toFixed(1) tenths.
ExportUnit == 100
ThumbUnit == 10
\* strokes.slice(0, 10)
ThumbnailStrokes == 10
\* const padding = 20
Padding == 20
\* Math.max(10, ...)
MinViewSize == 10

\* the line element of generateSvgContent for one pair of points
svgLine(s, pt, next, unit) ==
    <<"line", pt.x * unit, pt.y * unit, next.x * unit, next.y * unit,
      s.color, s.strokeWidth, "0.5">>

\* the path element of a stroke, with its opacity attribute or without
svgPath(s) ==
    <<"path", s.pathData, s.color, s.strokeWidth,
      IF s.brushType = "marker" THEN "0.5" ELSE "">>

\* renderStroke of generateSvgContent emitting a path for every stroke
renderStroke_pathOnly(s) == <<svgPath(s)>>

\* renderStroke of generateSvgContent: the tags of one stroke
renderStroke(s) ==
    IF s.brushType = "marker" /\ Len(s.points) > 1
    THEN [i \in 1..(Len(s.points) - 1) |-> svgLine(s, s.points[i], s.points[i + 1], ExportUnit)]
    ELSE <<svgPath(s)>>

\* strokes.map(renderStroke).join
RECURSIVE renderStrokes(_)
renderStrokes(ss) ==
    IF Len(ss) = 0 THEN << >> ELSE renderStroke(Head(ss)) \o renderStrokes(Tail(ss))

\* generateSvgContent returning the empty string for no stroke
generateSvgContent_emptyForNone(ss, width, height) ==
    IF Len(ss) = 0 THEN << >>
    ELSE << <<"?xml">>, <<"svg", 0, 0, width, height, width, height>>,
            <<"rect", "#ffffff">> >>
         \o renderStrokes(ss) \o << <<"/svg">> >>

generateSvgContent(ss, width, height) ==
    << <<"?xml">>, <<"svg", 0, 0, width, height, width, height>>, <<"rect", "#ffffff">> >>
    \o renderStrokes(ss) \o << <<"/svg">> >>

\* renderStroke of generateThumbnailSvg
renderThumbStroke(s) ==
    IF s.brushType = "marker" /\ Len(s.points) > 1
    THEN [i \in 1..(Len(s.points) - 1) |-> svgLine(s, s.points[i], s.points[i + 1], ThumbUnit)]
    ELSE <<svgPath(s)>>

\* topStrokes.map(renderStroke).join
RECURSIVE renderThumbStrokes(_)
renderThumbStrokes(ss) ==
    IF Len(ss) = 0 THEN << >> ELSE renderThumbStroke(Head(ss)) \o renderThumbStrokes(Tail(ss))

\* the reduce of generateThumbnailSvg over a list of strokes that is not empty
unionBoundingBox(top) ==
    [minX |-> MinOf({getStrokeBoundingBox(top[i]).minX : i \in 1..Len(top)}),
     minY |-> MinOf({getStrokeBoundingBox(top[i]).minY : i \in 1..Len(top)}),
     maxX |-> MaxOf({getStrokeBoundingBox(top[i]).maxX : i \in 1..Len(top)}),
     maxY |-> MaxOf({getStrokeBoundingBox(top[i]).maxY : i \in 1..Len(top)})]

\* the svg of the thumbnail for the strokes shown and the strokes measured
thumbnailOf(shown, measured) ==
    LET allBB == unionBoundingBox(measured)
        vW == Max(MinViewSize, allBB.maxX - allBB.minX + Padding * 2)
        vH == Max(MinViewSize, allBB.maxY - allBB.minY + Padding * 2)
    IN  << <<"svg", (allBB.minX - Padding) * ThumbUnit, (allBB.minY - Padding) * ThumbUnit,
             vW * ThumbUnit, vH * ThumbUnit, "100%", "100%">>,
           <<"rect", "#ffffff">> >>
        \o renderThumbStrokes(shown) \o << <<"/svg">> >>

\* generateThumbnailSvg without the slice(0, 10)
generateThumbnailSvg_allStrokes(ss, width, height) ==
    IF Len(ss) = 0 THEN << >> ELSE thumbnailOf(ss, ss)

\* topStrokes is not empty past the early return, so allBB.minX is never
\* Infinity and the viewBox is always the padded one
generateThumbnailSvg(ss, width, height) ==
    IF Len(ss) = 0
    THEN << >>
    ELSE thumbnailOf(FirstN(ss, ThumbnailStrokes), FirstN(ss, ThumbnailStrokes))

----------------------------------------------------------------------------
(* The state as one record, and its assignment to the cells *)

Cur ==
    [strokes |-> strokes, undoStack |-> undoStack, redoStack |-> redoStack,
     currentStroke |-> currentStroke, currentTool |-> currentTool,
     currentColor |-> currentColor, currentWidth |-> currentWidth,
     selection |-> selection, focusedId |-> focusedId, isDirty |-> isDirty,
     nextId |-> nextId, touching |-> touching, dragStart |-> dragStart]

Becomes(d) ==
    /\ strokes' = d.strokes
    /\ undoStack' = d.undoStack
    /\ redoStack' = d.redoStack
    /\ currentStroke' = d.currentStroke
    /\ currentTool' = d.currentTool
    /\ currentColor' = d.currentColor
    /\ currentWidth' = d.currentWidth
    /\ selection' = d.selection
    /\ focusedId' = d.focusedId
    /\ isDirty' = d.isDirty
    /\ nextId' = d.nextId
    /\ touching' = d.touching
    /\ dragStart' = d.dragStart

----------------------------------------------------------------------------
(* useSketchpad: the state setters and the functions the hook returns *)

setCurrentTool(d, tool) == [d EXCEPT !.currentTool = tool]

setCurrentColor(d, color) == [d EXCEPT !.currentColor = color]

setCurrentWidth(d, width) == [d EXCEPT !.currentWidth = width]

markClean(d) == [d EXCEPT !.isDirty = FALSE]

markDirty(d) == [d EXCEPT !.isDirty = TRUE]

loadStrokes(d, newStrokes) ==
    [d EXCEPT !.strokes = newStrokes,
              !.undoStack = << >>,
              !.redoStack = << >>,
              !.selection = << >>,
              !.focusedId = NoId,
              !.currentStroke = Null,
              !.isDirty = FALSE]

\* saveStateToUndo without the slice(-50)
saveStateToUndo_uncapped(d, currentStrokes) ==
    markDirty([d EXCEPT !.undoStack = Append(d.undoStack, currentStrokes),
                        !.redoStack = << >>])

\* saveStateToUndo without setRedoStack([])
saveStateToUndo_keepsRedo(d, currentStrokes) ==
    markDirty([d EXCEPT !.undoStack = LastN(Append(d.undoStack, currentStrokes), HistoryCap)])

saveStateToUndo(d, currentStrokes) ==
    markDirty([d EXCEPT !.undoStack = LastN(Append(d.undoStack, currentStrokes), HistoryCap),
                        !.redoStack = << >>])

\* the Stroke object of startDrawing with the active width stored as it is
\* for every tool
newStroke_plainWidth(id, point, tool, color, width) ==
    [id |-> id,
     points |-> <<point>>,
     color |-> color,
     strokeWidth |-> width * 10,
     brushType |-> tool,
     pathData |-> getSvgPathFromPoints(<<point>>)]

\* the Stroke object startDrawing builds
newStroke(id, point, tool, color, width) ==
    [id |-> id,
     points |-> <<point>>,
     color |-> color,
     strokeWidth |-> IF tool = "calligraphy" THEN width * 15 ELSE width * 10,
     brushType |-> tool,
     pathData |-> getSvgPathFromPoints(<<point>>)]

\* startDrawing without the test of the tool
startDrawing_anyTool(d, point) ==
    [d EXCEPT !.currentStroke = <<newStroke(d.nextId, point, d.currentTool,
                                            d.currentColor, d.currentWidth)>>,
              !.nextId = d.nextId + 1]

startDrawing(d, point) ==
    IF d.currentTool = "eraser" \/ d.currentTool = "select"
    THEN d
    ELSE [d EXCEPT !.currentStroke = <<newStroke(d.nextId, point, d.currentTool,
                                                 d.currentColor, d.currentWidth)>>,
                   !.nextId = d.nextId + 1]

\* the updater of continueDrawing without the recomputation of pathData
appendPoint_stalePath(prev, point) ==
    [prev EXCEPT !.points = Append(prev.points, point)]

\* the updater of continueDrawing: the stroke with the point appended
appendPoint(prev, point) ==
    [prev EXCEPT !.points = Append(prev.points, point),
                 !.pathData = getSvgPathFromPoints(Append(prev.points, point))]

continueDrawing(d, point) ==
    IF d.currentStroke = Null
    THEN d
    ELSE [d EXCEPT !.currentStroke = <<appendPoint(d.currentStroke[1], point)>>]

\* endDrawing recording the strokes after the commit
endDrawing_recordsAfter(d) ==
    IF d.currentStroke # Null /\ Len(d.currentStroke[1].points) > 0
    THEN [saveStateToUndo(d, Append(d.strokes, d.currentStroke[1])) EXCEPT
              !.strokes = Append(d.strokes, d.currentStroke[1]),
              !.currentStroke = Null]
    ELSE [d EXCEPT !.currentStroke = Null]

\* endDrawing leaving the committed stroke in currentStroke
endDrawing_keepsCurrent(d) ==
    IF d.currentStroke # Null /\ Len(d.currentStroke[1].points) > 0
    THEN [saveStateToUndo(d, d.strokes) EXCEPT
              !.strokes = Append(d.strokes, d.currentStroke[1])]
    ELSE [d EXCEPT !.currentStroke = Null]

endDrawing(d) ==
    IF d.currentStroke # Null /\ Len(d.currentStroke[1].points) > 0
    THEN [saveStateToUndo(d, d.strokes) EXCEPT
              !.strokes = Append(d.strokes, d.currentStroke[1]),
              !.currentStroke = Null]
    ELSE [d EXCEPT !.currentStroke = Null]

\* undo restoring the oldest snapshot instead of the newest
undo_oldest(d) ==
    IF Len(d.undoStack) = 0
    THEN d
    ELSE markDirty([d EXCEPT !.redoStack = Append(d.redoStack, d.strokes),
                             !.strokes = d.undoStack[1],
                             !.selection = << >>,
                             !.focusedId = NoId,
                             !.undoStack = ButLast(d.undoStack)])

\* undo without clearSelection / setFocusedId(null)
undo_keepsSelection(d) ==
    IF Len(d.undoStack) = 0
    THEN d
    ELSE markDirty([d EXCEPT !.redoStack = Append(d.redoStack, d.strokes),
                             !.strokes = d.undoStack[Len(d.undoStack)],
                             !.undoStack = ButLast(d.undoStack)])

undo(d) ==
    IF Len(d.undoStack) = 0
    THEN d
    ELSE markDirty([d EXCEPT !.redoStack = Append(d.redoStack, d.strokes),
                             !.strokes = d.undoStack[Len(d.undoStack)],
                             !.selection = << >>,
                             !.focusedId = NoId,
                             !.undoStack = ButLast(d.undoStack)])

\* redo without the push onto the undo stack
redo_noPush(d) ==
    IF Len(d.redoStack) = 0
    THEN d
    ELSE markDirty([d EXCEPT !.strokes = d.redoStack[Len(d.redoStack)],
                             !.selection = << >>,
                             !.focusedId = NoId,
                             !.redoStack = ButLast(d.redoStack)])

redo(d) ==
    IF Len(d.redoStack) = 0
    THEN d
    ELSE markDirty([d EXCEPT !.undoStack = Append(d.undoStack, d.strokes),
                             !.strokes = d.redoStack[Len(d.redoStack)],
                             !.selection = << >>,
                             !.focusedId = NoId,
                             !.redoStack = ButLast(d.redoStack)])

\* clear without the test of strokes.length
clear_unguarded(d) ==
    [saveStateToUndo(d, d.strokes) EXCEPT
         !.strokes = << >>,
         !.selection = << >>,
         !.focusedId = NoId]

clear(d) ==
    IF Len(d.strokes) = 0
    THEN d
    ELSE [saveStateToUndo(d, d.strokes) EXCEPT
              !.strokes = << >>,
              !.selection = << >>,
              !.focusedId = NoId]

\* removeStroke without the pruning of the selection
removeStroke_keepsSelection(d, id) ==
    [saveStateToUndo(d, d.strokes) EXCEPT
         !.strokes = SelectSeq(d.strokes, LAMBDA s : s.id # id),
         !.focusedId = IF d.focusedId = id THEN NoId ELSE d.focusedId]

\* removeStroke unsetting the focus whatever stroke is removed
removeStroke_dropsFocus(d, id) ==
    [saveStateToUndo(d, d.strokes) EXCEPT
         !.strokes = SelectSeq(d.strokes, LAMBDA s : s.id # id),
         !.selection = SelectSeq(d.selection, LAMBDA sId : sId # id),
         !.focusedId = NoId]

removeStroke(d, id) ==
    [saveStateToUndo(d, d.strokes) EXCEPT
         !.strokes = SelectSeq(d.strokes, LAMBDA s : s.id # id),
         !.selection = SelectSeq(d.selection, LAMBDA sId : sId # id),
         !.focusedId = IF d.focusedId = id THEN NoId ELSE d.focusedId]

\* toggleSelection recording a snapshot, as the removing functions do
toggleSelection_records(d, id) ==
    [saveStateToUndo(d, d.strokes) EXCEPT
         !.selection = IF Includes(d.selection, id)
                       THEN SelectSeq(d.selection, LAMBDA sId : sId # id)
                       ELSE Append(d.selection, id),
         !.focusedId = IF d.focusedId = id THEN NoId ELSE d.focusedId]

\* toggleSelection without setFocusedId
toggleSelection_keepsFocus(d, id) ==
    [d EXCEPT !.selection = IF Includes(d.selection, id)
                            THEN SelectSeq(d.selection, LAMBDA sId : sId # id)
                            ELSE Append(d.selection, id)]

toggleSelection(d, id) ==
    [d EXCEPT !.selection = IF Includes(d.selection, id)
                            THEN SelectSeq(d.selection, LAMBDA sId : sId # id)
                            ELSE Append(d.selection, id),
              !.focusedId = IF d.focusedId = id THEN NoId ELSE d.focusedId]

clearSelection(d) == [d EXCEPT !.selection = << >>, !.focusedId = NoId]

selectAll(d) == [d EXCEPT !.selection = Ids(d.strokes)]

\* deleteSelected removing the focused stroke only, when there is one
deleteSelected_focusedOnly(d) ==
    IF Len(d.selection) = 0
    THEN d
    ELSE [saveStateToUndo(d, d.strokes) EXCEPT
              !.strokes = SelectSeq(d.strokes,
                                    LAMBDA s : IF d.focusedId = NoId
                                               THEN ~Includes(d.selection, s.id)
                                               ELSE s.id # d.focusedId),
              !.selection = << >>,
              !.focusedId = NoId]

deleteSelected(d) ==
    IF Len(d.selection) = 0
    THEN d
    ELSE [saveStateToUndo(d, d.strokes) EXCEPT
              !.strokes = SelectSeq(d.strokes, LAMBDA s : ~Includes(d.selection, s.id)),
              !.selection = << >>,
              !.focusedId = NoId]

\* the filter of selectByRect without the Math.min / Math.max of the corners
rectHits_unnormalized(rect, stroke) ==
    LET bb == getStrokeBoundingBox(stroke)
    IN  bb.maxX >= rect.x1 /\ bb.minX <= rect.x2 /\ bb.maxY >= rect.y1 /\ bb.minY <= rect.y2

\* the filter of selectByRect with > and < in place of >= and <=
rectHits_strict(rect, stroke) ==
    LET minX == Min(rect.x1, rect.x2)
        maxX == Max(rect.x1, rect.x2)
        minY == Min(rect.y1, rect.y2)
        maxY == Max(rect.y1, rect.y2)
        bb == getStrokeBoundingBox(stroke)
    IN  bb.maxX > minX /\ bb.minX < maxX /\ bb.maxY > minY /\ bb.minY < maxY

\* the filter of selectByRect
rectHits(rect, stroke) ==
    LET minX == Min(rect.x1, rect.x2)
        maxX == Max(rect.x1, rect.x2)
        minY == Min(rect.y1, rect.y2)
        maxY == Max(rect.y1, rect.y2)
        bb == getStrokeBoundingBox(stroke)
    IN  bb.maxX >= minX /\ bb.minX <= maxX /\ bb.maxY >= minY /\ bb.minY <= maxY

\* selectByRect adding the strokes hit to the selection it finds
selectByRect_extends(d, rect) ==
    [d EXCEPT !.selection = d.selection \o
                  Ids(SelectSeq(d.strokes,
                                LAMBDA s : rectHits(rect, s) /\ ~Includes(d.selection, s.id))),
              !.focusedId = NoId]

selectByRect(d, rect) ==
    [d EXCEPT !.selection = Ids(SelectSeq(d.strokes, LAMBDA s : rectHits(rect, s))),
              !.focusedId = NoId]

\* drawingUtils.ts getStrokesInRect: the filter is the one of selectByRect
getStrokesInRect(ss, rect) == Ids(SelectSeq(ss, LAMBDA s : rectHits(rect, s)))

\* toggleFocused setting the focus without the test of the previous value
toggleFocused_alwaysSets(d, id) == [d EXCEPT !.focusedId = id]

toggleFocused(d, id) == [d EXCEPT !.focusedId = IF d.focusedId = id THEN NoId ELSE id]

----------------------------------------------------------------------------
(* SketchScreen: findNearestStrokeId and the pan-responder handlers.         *)
(* Distances are compared by their squares: d < bestDist iff d*d < bestDist  *)
(* squared, for the non-negative values Math.sqrt returns.                   *)

Dist2(ax, ay, bx, by) == (ax - bx) * (ax - bx) + (ay - by) * (ay - by)

\* the inner loop: best is <<bestId, bestDist squared>>
RECURSIVE ScanPoints(_, _, _, _, _)
ScanPoints(x, y, stroke, j, best) ==
    IF j > Len(stroke.points) THEN best
    ELSE LET d2 == Dist2(stroke.points[j].x, stroke.points[j].y, x, y)
         IN  ScanPoints(x, y, stroke, j + 1,
                        IF d2 < best[2] THEN <<stroke.id, d2>> ELSE best)

\* the outer loop
RECURSIVE ScanStrokes(_, _, _, _, _)
ScanStrokes(x, y, ss, i, best) ==
    IF i > Len(ss) THEN best
    ELSE ScanStrokes(x, y, ss, i + 1, ScanPoints(x, y, ss[i], 1, best))

\* findNearestStrokeId returning the first stroke with a point within the
\* radius
findNearestStrokeId_first(x, y, ss, radius) ==
    LET hits == {i \in 1..Len(ss) :
                   \E j \in 1..Len(ss[i].points) :
                      Dist2(ss[i].points[j].x, ss[i].points[j].y, x, y) < radius * radius}
    IN  IF hits = {} THEN NoId ELSE ss[MinOf(hits)].id

\* findNearestStrokeId with d <= bestDist: on equal distances the stroke met
\* last, and a point at the radius counts
findNearestStrokeId_last(x, y, ss, radius) ==
    LET dist(i) == MinOf({Dist2(ss[i].points[j].x, ss[i].points[j].y, x, y) :
                            j \in 1..Len(ss[i].points)})
        hits == {i \in 1..Len(ss) : Len(ss[i].points) > 0 /\ dist(i) <= radius * radius}
        best == {i \in hits : \A k \in hits : dist(i) <= dist(k)}
    IN  IF hits = {} THEN NoId ELSE ss[MaxOf(best)].id

findNearestStrokeId(x, y, ss, radius) ==
    ScanStrokes(x, y, ss, 1, <<NoId, radius * radius>>)[1]

onPanResponderGrant(d, p) ==
    IF d.currentTool = "select"
    THEN [d EXCEPT !.dragStart = <<[x |-> p.x, y |-> p.y]>>]
    ELSE IF d.currentTool # "eraser"
    THEN startDrawing(d, p)
    ELSE d

onPanResponderMove(d, p) ==
    IF d.currentTool = "eraser"
    THEN LET nearId == findNearestStrokeId(p.x, p.y, d.strokes, EraserRadius)
         IN  IF nearId # NoId THEN removeStroke(d, nearId) ELSE d
    ELSE IF d.currentTool = "select" /\ d.dragStart # Null
    THEN d
    ELSE continueDrawing(d, p)

\* onPanResponderRelease looking for the tapped stroke within the radius of
\* the eraser
onPanResponderRelease_eraserRadius(d, p) ==
    IF d.currentTool = "select" /\ d.dragStart # Null
    THEN LET ds == d.dragStart[1]
             done == [d EXCEPT !.dragStart = Null]
         IN  IF Dist2(p.x, p.y, ds.x, ds.y) < DRAG_THRESHOLD * DRAG_THRESHOLD
             THEN LET nearId == findNearestStrokeId(p.x, p.y, d.strokes, EraserRadius)
                  IN  IF nearId # NoId THEN toggleSelection(done, nearId) ELSE done
             ELSE selectByRect(done, [x1 |-> ds.x, y1 |-> ds.y, x2 |-> p.x, y2 |-> p.y])
    ELSE endDrawing(d)

onPanResponderRelease(d, p) ==
    IF d.currentTool = "select" /\ d.dragStart # Null
    THEN LET ds == d.dragStart[1]
             done == [d EXCEPT !.dragStart = Null]
         IN  IF Dist2(p.x, p.y, ds.x, ds.y) < DRAG_THRESHOLD * DRAG_THRESHOLD
             THEN LET nearId == findNearestStrokeId(p.x, p.y, d.strokes, TapRadius)
                  IN  IF nearId # NoId THEN toggleSelection(done, nearId) ELSE done
             ELSE selectByRect(done, [x1 |-> ds.x, y1 |-> ds.y, x2 |-> p.x, y2 |-> p.y])
    ELSE endDrawing(d)

onPanResponderTerminate(d) == endDrawing([d EXCEPT !.dragStart = Null])

\* SelectionPanel: the strokes it lists
selectedStrokes(d) == SelectSeq(d.strokes, LAMBDA s : Includes(d.selection, s.id))

\* DrawingToolbar: isDrawingTool
isDrawingTool(d) == d.currentTool \in {"pen", "marker", "calligraphy"}

----------------------------------------------------------------------------
(* Inputs *)

Pt(x, y, pressure) == [x |-> x, y |-> y, pressure |-> pressure]

\* pointer samples: two canvas positions at distance 20 from each other
Samples == {Pt(0, 0, 50), Pt(12, 16, 20)}

\* the tool buttons pressed in the editing scenario: one drawing tool, the
\* eraser and the selection tool
ToolButtons == {"pen", "eraser", "select"}

\* the pointer sample of the deep-history scenario
DeepPoint == Pt(0, 0, 50)

\* a drawing loaded from storage: one committed pen stroke
StoredDocs ==
    { << newStroke(-1, Pt(12, 16, 50), "pen", "#000000", InitialWidth) >> }

\* the documents the screen can be opened with: a new sketch or a stored one
InitialDocs == {<< >>} \cup StoredDocs

\* ids an API caller can pass: those of the document and one of no stroke
ApiIds(d) == IdSet(d.strokes) \cup {-9}

----------------------------------------------------------------------------
(* The editor screen: one action per event *)

\* the exploration bounds, as a guard on the state an event leads to
Within(d) ==
    /\ d.nextId <= MaxStrokes + 1
    /\ Len(d.undoStack) <= MaxHist
    /\ IF d.currentStroke = Null THEN TRUE
       ELSE Len(d.currentStroke[1].points) <= MaxPoints

Step(d) == Within(d) /\ Becomes(d)

\* the cells as useState initialises them, before the mount effect
Fresh ==
    [strokes |-> << >>, undoStack |-> << >>, redoStack |-> << >>,
     currentStroke |-> Null, currentTool |-> "pen",
     currentColor |-> "#000000", currentWidth |-> InitialWidth,
     selection |-> << >>, focusedId |-> NoId, isDirty |-> FALSE,
     nextId |-> 1, touching |-> FALSE, dragStart |-> Null]

----------------------------------------------------------------------------
(* useDrawingStorage.saveDrawing, called by handleSave of the screen, and    *)
(* AsyncStorage. persist holds the state cells isSaving and currentDrawingId *)
(* of the screen, the cell drawings of the storage hook, the stored records  *)
(* (one key per drawing) and the stored index, and the position of the save  *)
(* in flight: a save runs from one await to the next, and the handlers of    *)
(* the screen run in between. Drawing ids are numbers: Undefined is no id,   *)
(* StoredId the id of the drawing the screen was opened with, and nanoid()   *)
(* returns the next number. The clock of new Date() is the number of saves   *)
(* started. The name, the canvas size and the thumbnail of a drawing are     *)
(* left out. AsyncStorage runs the calls in the order they were made:        *)
(* persist.queue holds the callers of the calls in flight, the oldest first, *)
(* and the call at its head is the one that resolves or rejects next.        *)
(* alert is the last Alert of handleSave, and lastSaved observes             *)
(* the strokes of the drawing written by the last save that ended well, or   *)
(* the strokes the screen was opened with.                                   *)

Undefined == 0
StoredId == 1
\* the id of another stored drawing, which the gallery lists
OtherId == -1

DrawingIds == {OtherId} \cup 1..(MaxSaves + 1)

\* useState<string | null>(null): no error
NoError == "null"

\* the layout of the canvas
Canvas == [width |-> 100, height |-> 80]

\* the Drawing object of saveDrawing
Drawing(id, ss, createdAt, now) ==
    [id |-> id, strokes |-> ss,
     thumbnailSvg |-> generateThumbnailSvg(ss, Canvas.width, Canvas.height),
     createdAt |-> createdAt, updatedAt |-> now]

\* drawings.find(d => d.id === existingId)?.createdAt || now
createdAtOf(drawings, existingId, now) ==
    LET found == SelectSeq(drawings, LAMBDA d : d.id = existingId)
    IN  IF Len(found) > 0 THEN found[1].createdAt ELSE now

\* the screen opened on the stored drawing StoredId when there are initial
\* strokes, and on a new drawing otherwise; the storage hook of the screen
\* starts with an empty list of drawings
Persisted(initialStrokes) ==
    [isSaving |-> FALSE,
     currentDrawingId |-> IF Len(initialStrokes) > 0 THEN StoredId ELSE Undefined,
     drawings |-> << >>,
     records |-> [id \in DrawingIds |->
                    IF id = StoredId /\ Len(initialStrokes) > 0
                    THEN <<Drawing(StoredId, initialStrokes, 0, 0)>>
                    ELSE Null],
     index |-> IF Len(initialStrokes) > 0 THEN <<StoredId>> ELSE << >>,
     pc |-> "idle",
     job |-> Null,
     ids |-> << >>,
     saves |-> 0,
     alert |-> "none",
     lastSaved |-> initialStrokes,
     gallery |-> << >>,
     isLoading |-> FALSE,
     error |-> NoError,
     load |-> Null,
     del |-> Null,
     deleted |-> {},
     queue |-> << >>,
     svgContent |-> Null]

\* handleExport: the content written to the file
handleExport(sv, d) ==
    [sv EXCEPT !.svgContent = <<generateSvgContent(d.strokes, Canvas.width, Canvas.height)>>]

\* handleSave up to the first await of saveDrawing: the drawing is built from
\* the strokes of the call and serialized for the setItem in flight
handleSave(sv, d) ==
    IF sv.isSaving
    THEN sv
    ELSE LET now == sv.saves + 1
             id == IF sv.currentDrawingId # Undefined
                   THEN sv.currentDrawingId
                   ELSE StoredId + now
             createdAt == IF sv.currentDrawingId # Undefined
                          THEN createdAtOf(sv.drawings, sv.currentDrawingId, now)
                          ELSE now
         IN  [sv EXCEPT !.isSaving = TRUE,
                        !.saves = now,
                        !.pc = "setItem",
                        !.job = <<Drawing(id, d.strokes, createdAt, now)>>]

\* what the setItem of the drawing writes when the strokes of the screen are
\* live at that time: the strokes of the screen in place of those serialized
\* at the call
writtenDrawing_live(sv, live) == [sv.job[1] EXCEPT !.strokes = live.strokes]

\* what the setItem of the drawing writes: the drawing serialized at the call
writtenDrawing(sv, live) == sv.job[1]

\* the setItem of the drawing resolves, and the getItem of the index starts
setItemResolved(sv, live) ==
    [sv EXCEPT !.records[sv.job[1].id] = <<writtenDrawing(sv, live)>>,
               !.pc = "getItem"]

\* the catch and the finally of handleSave with isSaving left set
handleSaveFailed_stillSaving(sv) ==
    [sv EXCEPT !.pc = "idle", !.job = Null, !.alert = "failed"]

\* a storage call rejects: the catch and the finally of handleSave
handleSaveFailed(sv) ==
    [sv EXCEPT !.isSaving = FALSE, !.pc = "idle", !.job = Null, !.alert = "failed"]

\* saveDrawing from setDrawings to its return, then handleSave to its end
handleSaveDone(sv) ==
    LET drawing == sv.job[1]
        drawingForList == [drawing EXCEPT !.strokes = << >>]
        filtered == SelectSeq(sv.drawings, LAMBDA x : x.id # drawing.id)
    IN  [sv EXCEPT !.drawings = <<drawingForList>> \o filtered,
                   !.currentDrawingId = drawing.id,
                   !.isSaving = FALSE,
                   !.pc = "idle",
                   !.job = Null,
                   !.alert = "saved",
                   !.lastSaved = drawing.strokes]

\* the getItem of the index resolves: with the id in the index the save is
\* done, otherwise the id is pushed on the ids read and the setItem of the
\* index starts with them
getItemResolved(sv) ==
    IF Includes(sv.index, sv.job[1].id)
    THEN handleSaveDone(sv)
    ELSE [sv EXCEPT !.pc = "setIndex", !.ids = Append(sv.index, sv.job[1].id)]

\* the setItem of the index resolves: the index holds the ids it was called
\* with
setIndexResolved(sv) ==
    handleSaveDone([sv EXCEPT !.index = sv.ids, !.ids = << >>])

----------------------------------------------------------------------------
(* useDrawingStorage of the gallery: loadDrawings and deleteDrawing, one     *)
(* await at a time. The gallery has its own instance of the hook, with its   *)
(* own list of drawings (persist.gallery), and shares AsyncStorage with the  *)
(* screen. A stored value JSON.parse throws on is the record Malformed.      *)
(* persist.deleted observes the ids of the drawings whose deleteDrawing ran  *)
(* to its end.                                                               *)

Malformed == [malformed |-> TRUE]

\* JSON.parse throws on the stored value
IsMalformed(json) == json # Null /\ "malformed" \in DOMAIN json[1]

\* the sequence with x inserted before the first element of s that is older
\* than x
InsertByUpdatedAt(s, x) ==
    LET older == {i \in 1..Len(s) : s[i].updatedAt < x.updatedAt}
        at == IF older = {} THEN Len(s) + 1 ELSE MinOf(older)
    IN  SubSeq(s, 1, at - 1) \o <<x>> \o SubSeq(s, at, Len(s))

RECURSIVE sortByUpdatedAt(_)
\* loadedDrawings.sort(...): by updatedAt, the latest first, the order of
\* equal dates kept
sortByUpdatedAt(s) ==
    IF Len(s) = 0
    THEN << >>
    ELSE InsertByUpdatedAt(sortByUpdatedAt(ButLast(s)), s[Len(s)])

\* loadDrawings up to the getItem of the index
loadDrawings(sv) ==
    [sv EXCEPT !.isLoading = TRUE,
               !.error = NoError,
               !.load = <<[pc |-> "index", ids |-> << >>, loadedDrawings |-> << >>]>>]

\* the catch and the finally of loadDrawings
loadDrawingsFailed(sv) ==
    [sv EXCEPT !.error = "Erreur lors du chargement des dessins",
               !.isLoading = FALSE,
               !.load = Null]

\* the getItem of the index resolves: without ids the list is emptied,
\* otherwise the getItem of the first drawing starts
loadIndexResolved(sv) ==
    IF Len(sv.index) = 0
    THEN [sv EXCEPT !.gallery = << >>, !.isLoading = FALSE, !.load = Null]
    ELSE [sv EXCEPT !.load = <<[pc |-> "record", ids |-> sv.index,
                                 loadedDrawings |-> << >>]>>]

\* loadDrawings after the drawing of the id at the head of ids: the list is
\* published after the last id, otherwise the getItem of the next id starts
loadNext(sv, loadedDrawings) ==
    IF Len(sv.load[1].ids) = 1
    THEN [sv EXCEPT !.gallery = sortByUpdatedAt(loadedDrawings),
                    !.isLoading = FALSE,
                    !.load = Null]
    ELSE [sv EXCEPT !.load = <<[pc |-> "record", ids |-> Tail(sv.load[1].ids),
                                 loadedDrawings |-> loadedDrawings]>>]

\* the getItem of a drawing resolves, with the malformed records skipped like
\* the absent ones
loadRecordResolved_skipsMalformed(sv) ==
    LET json == sv.records[Head(sv.load[1].ids)]
    IN  IF json = Null \/ IsMalformed(json)
        THEN loadNext(sv, sv.load[1].loadedDrawings)
        ELSE loadNext(sv, Append(sv.load[1].loadedDrawings,
                                 [json[1] EXCEPT !.strokes = << >>]))

\* the getItem of a drawing resolves: an absent record is skipped, a
\* malformed one throws, and any other is pushed without its strokes
loadRecordResolved(sv) ==
    LET json == sv.records[Head(sv.load[1].ids)]
    IN  IF json = Null
        THEN loadNext(sv, sv.load[1].loadedDrawings)
        ELSE IF IsMalformed(json)
        THEN loadDrawingsFailed(sv)
        ELSE loadNext(sv, Append(sv.load[1].loadedDrawings,
                                 [json[1] EXCEPT !.strokes = << >>]))

\* deleteDrawing up to the removeItem of the drawing
deleteDrawing(sv, id) ==
    [sv EXCEPT !.del = <<[pc |-> "removeItem", id |-> id, newIds |-> << >>]>>]

\* the removeItem resolves, and the getItem of the index starts
removeItemResolved(sv) ==
    [sv EXCEPT !.records[sv.del[1].id] = Null, !.del[1].pc = "getItem"]

\* the getItem of the index resolves, and the setItem of the ids without
\* the id starts
deleteIndexRead(sv) ==
    [sv EXCEPT !.del[1].pc = "setItem",
               !.del[1].newIds = SelectSeq(sv.index, LAMBDA i : i # sv.del[1].id)]

\* the setItem of the index resolves, and the drawing leaves the list
deleteIndexWritten(sv) ==
    [sv EXCEPT !.index = sv.del[1].newIds,
               !.gallery = SelectSeq(sv.gallery, LAMBDA x : x.id # sv.del[1].id),
               !.del = Null,
               !.deleted = sv.deleted \cup {sv.del[1].id}]

\* the catch of deleteDrawing
deleteDrawingFailed(sv) == [sv EXCEPT !.del = Null]

\* the caller makes a storage call: it joins the calls in flight
Called(sv, caller) == [sv EXCEPT !.queue = Append(sv.queue, caller)]

\* the oldest call in flight is one of the caller
Turn(caller) == Len(persist.queue) > 0 /\ Head(persist.queue) = caller

\* the oldest call in flight has settled and left sv as after; its caller has
\* made its next call when calling holds
Settled(sv, after, caller, calling) ==
    [after EXCEPT !.queue = IF calling THEN Append(Tail(sv.queue), caller)
                                       ELSE Tail(sv.queue)]

\* the screen once mounted: the mount effect loads initialStrokes when there
\* are some; ids drawn in the session differ from the stored ones
Mounted(initialStrokes) ==
    IF Len(initialStrokes) > 0
    THEN [loadStrokes(Fresh, initialStrokes) EXCEPT !.nextId = Len(initialStrokes) + 1]
    ELSE Fresh

Init ==
    /\ \E initialStrokes \in InitialDocs :
          /\ strokes = Mounted(initialStrokes).strokes
          /\ nextId = Mounted(initialStrokes).nextId
          /\ persist = Persisted(initialStrokes)
    /\ undoStack = Fresh.undoStack
    /\ redoStack = Fresh.redoStack
    /\ currentStroke = Fresh.currentStroke
    /\ currentTool = Fresh.currentTool
    /\ currentColor = Fresh.currentColor
    /\ currentWidth = Fresh.currentWidth
    /\ selection = Fresh.selection
    /\ focusedId = Fresh.focusedId
    /\ isDirty = Fresh.isDirty
    /\ touching = Fresh.touching
    /\ dragStart = Fresh.dragStart
    /\ run = [bases |-> << >>, undos |-> 0, live |-> TRUE]

PointerGrant ==
    /\ ~touching
    /\ \E p \in Samples : Step([onPanResponderGrant(Cur, p) EXCEPT !.touching = TRUE])
    /\ UNCHANGED <<run, persist>>

PointerMove ==
    /\ touching
    /\ \E p \in Samples :
          Step(onPanResponderMove(Cur, p))
    /\ UNCHANGED <<run, persist>>

PointerRelease ==
    /\ touching
    /\ \E p \in Samples : Step([onPanResponderRelease(Cur, p) EXCEPT !.touching = FALSE])
    /\ UNCHANGED <<run, persist>>

PointerTerminate ==
    /\ touching
    /\ Step([onPanResponderTerminate(Cur) EXCEPT !.touching = FALSE])
    /\ UNCHANGED <<run, persist>>

PressTool(tools) ==
    /\ \E tool \in tools : Step(setCurrentTool(Cur, tool))
    /\ UNCHANGED <<run, persist>>

\* disabled={!canUndo}
PressUndo ==
    /\ Len(undoStack) > 0
    /\ Step(undo(Cur))
    /\ UNCHANGED <<run, persist>>

\* disabled={!canRedo}
PressRedo ==
    /\ Len(redoStack) > 0
    /\ Step(redo(Cur))
    /\ UNCHANGED <<run, persist>>

\* handleClear, confirmed in the alert
ConfirmClear ==
    /\ Step(clear(Cur))
    /\ UNCHANGED <<run, persist>>

\* handleSave, once storage.saveDrawing has resolved
PressSave ==
    /\ Step(markClean(Cur))
    /\ UNCHANGED <<run, persist>>

\* the SelectionPanel is rendered only while the selection is not empty
PanelDeleteSelected ==
    /\ Len(selection) > 0
    /\ Step(deleteSelected(Cur))
    /\ UNCHANGED <<run, persist>>

PanelClearSelection ==
    /\ Len(selection) > 0
    /\ Step(clearSelection(Cur))
    /\ UNCHANGED <<run, persist>>

PanelToggleFocus ==
    /\ Len(selection) > 0
    /\ \E id \in IdSet(selectedStrokes(Cur)) : Step(toggleFocused(Cur, id))
    /\ UNCHANGED <<run, persist>>

PanelRemoveFromSelection ==
    /\ Len(selection) > 0
    /\ \E id \in IdSet(selectedStrokes(Cur)) : Step(toggleSelection(Cur, id))
    /\ UNCHANGED <<run, persist>>

\* the editing scenario: every event of the screen, with the tools of ToolButtons
\* and the initial color and width
Next ==
    \/ PointerGrant
    \/ PointerMove
    \/ PointerRelease
    \/ PointerTerminate
    \/ PressTool(ToolButtons)
    \/ PressUndo
    \/ PressRedo
    \/ ConfirmClear
    \/ PressSave
    \/ PanelDeleteSelected
    \/ PanelClearSelection
    \/ PanelToggleFocus
    \/ PanelRemoveFromSelection

Spec == Init /\ [][Next]_vars

\* the drawing scenario: gestures under every tool, with undo and redo
NextTools ==
    \/ PointerGrant
    \/ PointerMove
    \/ PointerRelease
    \/ PointerTerminate
    \/ PressTool(BrushType)
    \/ PressUndo
    \/ PressRedo

SpecTools == Init /\ [][NextTools]_vars

----------------------------------------------------------------------------
(* The deep-history scenario: the hook's functions called directly, strokes  *)
(* committed one after the other past the capacity of the undo stack, with   *)
(* undo and redo.  run observes the run of commits followed by undo calls    *)
(* that starts when the screen opens: bases[i] is the value of strokes       *)
(* before the i-th commit, undos the number of undo calls made since the     *)
(* last commit; the first redo call ends the run (live = FALSE).             *)

NoRun == [bases |-> << >>, undos |-> 0, live |-> FALSE]

DeepStart ==
    /\ currentStroke = Null
    /\ redoStack = << >>
    /\ nextId <= MaxDeep
    /\ Becomes(startDrawing(Cur, DeepPoint))
    /\ UNCHANGED <<run, persist>>

DeepEnd ==
    /\ currentStroke # Null
    /\ Becomes(endDrawing(Cur))
    /\ run' = IF run.live THEN [run EXCEPT !.bases = Append(@, strokes)] ELSE run
    /\ UNCHANGED persist

\* undo is called whether or not the undo stack is empty
DeepUndo ==
    /\ currentStroke = Null
    /\ IF run.live THEN run.undos < Len(run.bases) ELSE Len(undoStack) > 0
    /\ Becomes(undo(Cur))
    /\ run' = IF run.live THEN [run EXCEPT !.undos = @ + 1] ELSE run
    /\ UNCHANGED persist

DeepRedo ==
    /\ currentStroke = Null
    /\ Becomes(redo(Cur))
    /\ run' = NoRun
    /\ UNCHANGED persist

NextDeep ==
    \/ DeepStart
    \/ DeepEnd
    \/ DeepUndo
    \/ DeepRedo

SpecDeep == Init /\ [][NextDeep]_vars

----------------------------------------------------------------------------
(* The pointer scenario: eraser and selection gestures over a stored         *)
(* drawing, with pointer positions at distances 3, 5, 10, 15, 20, 25 and 30  *)
(* from one another.                                                         *)

GeoSamples == {Pt(0, 0, 50), Pt(0, 3, 50), Pt(3, 4, 50), Pt(12, 16, 50), Pt(18, 24, 50)}

\* the strokes of a stored drawing: one point at a sample, or two points
GeoStrokes(id) ==
    {newStroke(id, p, "pen", "#000000", InitialWidth) : p \in GeoSamples}
    \cup {appendPoint(newStroke(id, Pt(0, 3, 50), "pen", "#000000", InitialWidth),
                      Pt(12, 16, 50)),
          appendPoint(newStroke(id, Pt(18, 24, 50), "marker", "#000000", InitialWidth),
                      Pt(3, 4, 50))}

\* the stored drawings: up to MaxStrokes strokes
GeoDocs ==
    {<< >>} \cup {<<a>> : a \in GeoStrokes(-1)}
            \cup {<<a, b>> : a \in GeoStrokes(-1), b \in GeoStrokes(-2)}

InitGeo ==
    /\ \E initialStrokes \in GeoDocs :
          /\ strokes = Mounted(initialStrokes).strokes
          /\ nextId = Mounted(initialStrokes).nextId
          /\ persist = Persisted(initialStrokes)
    /\ undoStack = Fresh.undoStack
    /\ redoStack = Fresh.redoStack
    /\ currentStroke = Fresh.currentStroke
    /\ currentTool = Fresh.currentTool
    /\ currentColor = Fresh.currentColor
    /\ currentWidth = Fresh.currentWidth
    /\ selection = Fresh.selection
    /\ focusedId = Fresh.focusedId
    /\ isDirty = Fresh.isDirty
    /\ touching = Fresh.touching
    /\ dragStart = Fresh.dragStart
    /\ run = NoRun

\* a gesture starts once the eraser or the selection tool has been chosen
GeoGrant ==
    /\ ~touching
    /\ ~isDrawingTool(Cur)
    /\ \E p \in GeoSamples : Step([onPanResponderGrant(Cur, p) EXCEPT !.touching = TRUE])
    /\ UNCHANGED <<run, persist>>

GeoMove ==
    /\ touching
    /\ \E p \in GeoSamples : Step(onPanResponderMove(Cur, p))
    /\ UNCHANGED <<run, persist>>

GeoRelease ==
    /\ touching
    /\ \E p \in GeoSamples : Step([onPanResponderRelease(Cur, p) EXCEPT !.touching = FALSE])
    /\ UNCHANGED <<run, persist>>

\* the tool buttons are pressed between gestures
GeoPressTool ==
    /\ ~touching
    /\ \E tool \in {"eraser", "select"} : Step(setCurrentTool(Cur, tool))
    /\ UNCHANGED <<run, persist>>

NextGeo ==
    \/ GeoGrant
    \/ GeoMove
    \/ GeoRelease
    \/ GeoPressTool
    \/ PanelToggleFocus
    \/ PressUndo
    \/ PressRedo

SpecGeo == InitGeo /\ [][NextGeo]_vars

----------------------------------------------------------------------------
(* The scenario of the saves in flight: the save button, the storage calls   *)
(* resolving or rejecting one await at a time, and in between them the pen,  *)
(* undo, redo and clear.                                                     *)

docVars == <<strokes, undoStack, redoStack, currentStroke, currentTool, currentColor,
             currentWidth, selection, focusedId, isDirty, nextId, touching, dragStart>>

\* onPress={handleSave} disabled={isSaving}
SaveStart ==
    /\ ~persist.isSaving
    /\ persist.saves < MaxSaves
    /\ persist' = Called(handleSave(persist, Cur), "save")
    /\ UNCHANGED <<docVars, run>>

SetItemResolves ==
    /\ persist.pc = "setItem"
    /\ Turn("save")
    /\ persist' = Settled(persist, setItemResolved(persist, Cur), "save", TRUE)
    /\ UNCHANGED <<docVars, run>>

\* the continuation of handleSave ends with markClean
GetItemResolves ==
    /\ persist.pc = "getItem"
    /\ Turn("save")
    /\ persist' = Settled(persist, getItemResolved(persist), "save",
                          getItemResolved(persist).pc # "idle")
    /\ Becomes(IF getItemResolved(persist).pc = "idle" THEN markClean(Cur) ELSE Cur)
    /\ UNCHANGED run

SetIndexResolves ==
    /\ persist.pc = "setIndex"
    /\ Turn("save")
    /\ persist' = Settled(persist, setIndexResolved(persist), "save", FALSE)
    /\ Becomes(markClean(Cur))
    /\ UNCHANGED run

StorageRejects ==
    /\ persist.pc \in {"setItem", "getItem", "setIndex"}
    /\ Turn("save")
    /\ persist' = Settled(persist, handleSaveFailed(persist), "save", FALSE)
    /\ UNCHANGED <<docVars, run>>

NextSave ==
    \/ SaveStart
    \/ SetItemResolves
    \/ GetItemResolves
    \/ SetIndexResolves
    \/ StorageRejects
    \/ PointerGrant
    \/ PointerRelease
    \/ PressUndo
    \/ PressRedo
    \/ ConfirmClear

SpecSave == Init /\ [][NextSave]_vars

----------------------------------------------------------------------------
(* The scenario of the gallery: the gallery stays mounted under the screen,  *)
(* so that its loads and deletes and the saves of the screen are in flight   *)
(* together, each resolving or rejecting one await at a time. The store      *)
(* holds the drawing the screen was opened with, if any, and possibly one    *)
(* other drawing; one stored record may be damaged from outside.             *)

\* the other drawing as stored: older than every save of the session
OtherDrawing == Drawing(OtherId, << >>, -1, -1)

GalleryStores(initialStrokes) ==
    LET base == Persisted(initialStrokes)
        with == [base EXCEPT !.records[OtherId] = <<OtherDrawing>>]
    IN  {base,
         [with EXCEPT !.index = <<OtherId>> \o base.index],
         [with EXCEPT !.index = base.index \o <<OtherId>>]}

InitGallery ==
    /\ \E initialStrokes \in InitialDocs :
          /\ strokes = Mounted(initialStrokes).strokes
          /\ nextId = Mounted(initialStrokes).nextId
          /\ persist \in GalleryStores(initialStrokes)
    /\ undoStack = Fresh.undoStack
    /\ redoStack = Fresh.redoStack
    /\ currentStroke = Fresh.currentStroke
    /\ currentTool = Fresh.currentTool
    /\ currentColor = Fresh.currentColor
    /\ currentWidth = Fresh.currentWidth
    /\ selection = Fresh.selection
    /\ focusedId = Fresh.focusedId
    /\ isDirty = Fresh.isDirty
    /\ touching = Fresh.touching
    /\ dragStart = Fresh.dragStart
    /\ run = NoRun

\* useFocusEffect: loadDrawings()
LoadStart ==
    /\ persist.load = Null
    /\ persist' = Called(loadDrawings(persist), "load")
    /\ UNCHANGED <<docVars, run>>

LoadIndexResolves ==
    /\ persist.load # Null
    /\ persist.load[1].pc = "index"
    /\ Turn("load")
    /\ persist' = Settled(persist, loadIndexResolved(persist), "load",
                          loadIndexResolved(persist).load # Null)
    /\ UNCHANGED <<docVars, run>>

LoadRecordResolves ==
    /\ persist.load # Null
    /\ persist.load[1].pc = "record"
    /\ Turn("load")
    /\ persist' = Settled(persist, loadRecordResolved(persist), "load",
                          loadRecordResolved(persist).load # Null)
    /\ UNCHANGED <<docVars, run>>

LoadRejects ==
    /\ persist.load # Null
    /\ Turn("load")
    /\ persist' = Settled(persist, loadDrawingsFailed(persist), "load", FALSE)
    /\ UNCHANGED <<docVars, run>>

\* onPress: () => deleteDrawing(drawing.id), for a drawing of the list
DeleteStart ==
    /\ persist.del = Null
    /\ \E i \in 1..Len(persist.gallery) :
          persist' = Called(deleteDrawing(persist, persist.gallery[i].id), "delete")
    /\ UNCHANGED <<docVars, run>>

RemoveItemResolves ==
    /\ persist.del # Null
    /\ persist.del[1].pc = "removeItem"
    /\ Turn("delete")
    /\ persist' = Settled(persist, removeItemResolved(persist), "delete", TRUE)
    /\ UNCHANGED <<docVars, run>>

DeleteIndexResolves ==
    /\ persist.del # Null
    /\ persist.del[1].pc = "getItem"
    /\ Turn("delete")
    /\ persist' = Settled(persist, deleteIndexRead(persist), "delete", TRUE)
    /\ UNCHANGED <<docVars, run>>

DeleteSetItemResolves ==
    /\ persist.del # Null
    /\ persist.del[1].pc = "setItem"
    /\ Turn("delete")
    /\ persist' = Settled(persist, deleteIndexWritten(persist), "delete", FALSE)
    /\ UNCHANGED <<docVars, run>>

DeleteRejects ==
    /\ persist.del # Null
    /\ Turn("delete")
    /\ persist' = Settled(persist, deleteDrawingFailed(persist), "delete", FALSE)
    /\ UNCHANGED <<docVars, run>>

\* a stored record is damaged from outside, once
StorageDamaged ==
    /\ \A id \in DrawingIds : ~IsMalformed(persist.records[id])
    /\ \E id \in DrawingIds :
          /\ persist.records[id] # Null
          /\ persist' = [persist EXCEPT !.records[id] = <<Malformed>>]
    /\ UNCHANGED <<docVars, run>>

NextGallery ==
    \/ LoadStart
    \/ LoadIndexResolves
    \/ LoadRecordResolves
    \/ LoadRejects
    \/ DeleteStart
    \/ RemoveItemResolves
    \/ DeleteIndexResolves
    \/ DeleteSetItemResolves
    \/ DeleteRejects
    \/ StorageDamaged
    \/ SaveStart
    \/ SetItemResolves
    \/ GetItemResolves
    \/ SetIndexResolves
    \/ StorageRejects

SpecGallery == InitGallery /\ [][NextGallery]_vars

----------------------------------------------------------------------------
(* SkiaCanvas, RegularStroke: the widths of the segments of a calligraphy    *)
(* stroke. strokeWidth is held in tenths and pressure in hundredths, so the  *)
(* width strokeWidth * ((p1 + p2) / 2) * 1.5 is held, exactly, in units of   *)
(* 1 / WidthUnit with WidthUnit = 10 * 200 * 10.                             *)

WidthUnit == 20000

\* the strokeWidth of each Line of a calligraphy stroke of several points
segmentWidths(stroke) ==
    [i \in 1..(Len(stroke.points) - 1) |->
        Max(1 * WidthUnit,
            stroke.strokeWidth * (stroke.points[i].pressure + stroke.points[i + 1].pressure) * 15)]

\* the Slider of the toolbar goes from 1 to 40 by steps of 1; the widths tried
Widths == {1, 5, 10}

\* pointer samples of pressure 0.2, 0.4 and 0.5
RenderSamples == {Pt(0, 0, 20), Pt(12, 16, 40), Pt(0, 0, 50)}

\* onWidthChange={sketch.setCurrentWidth}
SlideWidth ==
    /\ \E width \in Widths : Step(setCurrentWidth(Cur, width))
    /\ UNCHANGED <<run, persist>>

RenderGrant ==
    /\ ~touching
    /\ \E p \in RenderSamples : Step([onPanResponderGrant(Cur, p) EXCEPT !.touching = TRUE])
    /\ UNCHANGED <<run, persist>>

RenderMove ==
    /\ touching
    /\ \E p \in RenderSamples : Step(onPanResponderMove(Cur, p))
    /\ UNCHANGED <<run, persist>>

RenderRelease ==
    /\ touching
    /\ \E p \in RenderSamples : Step([onPanResponderRelease(Cur, p) EXCEPT !.touching = FALSE])
    /\ UNCHANGED <<run, persist>>

RenderPressTool ==
    /\ ~touching
    /\ \E tool \in {"pen", "calligraphy"} : Step(setCurrentTool(Cur, tool))
    /\ UNCHANGED <<run, persist>>

NextRender ==
    \/ SlideWidth
    \/ RenderGrant
    \/ RenderMove
    \/ RenderRelease
    \/ RenderPressTool

SpecRender == Init /\ [][NextRender]_vars

----------------------------------------------------------------------------
(* The scenario of the paths: one stroke of up to MaxPathPoints points is     *)
(* drawn with the pen through the samples of PathSamples and committed.       *)

\* pointer samples whose midpoints have halves: (1.5, 2), (6, 8), (7.5, 10)
PathSamples == {Pt(0, 0, 50), Pt(3, 4, 50), Pt(12, 16, 50)}

\* nothing has been drawn in the session yet
PathGrant ==
    /\ ~touching
    /\ Len(undoStack) = 0
    /\ \E p \in PathSamples :
          Becomes([onPanResponderGrant(Cur, p) EXCEPT !.touching = TRUE])
    /\ UNCHANGED <<run, persist>>

PathMove ==
    /\ touching
    /\ currentStroke # Null
    /\ Len(currentStroke[1].points) < MaxPathPoints
    /\ \E p \in PathSamples : Becomes(onPanResponderMove(Cur, p))
    /\ UNCHANGED <<run, persist>>

PathRelease ==
    /\ touching
    /\ \E p \in PathSamples :
          Becomes([onPanResponderRelease(Cur, p) EXCEPT !.touching = FALSE])
    /\ UNCHANGED <<run, persist>>

NextPath ==
    \/ PathGrant
    \/ PathMove
    \/ PathRelease

SpecPath == Init /\ [][NextPath]_vars

----------------------------------------------------------------------------
(* The scenario of the export: up to MaxExportStrokes strokes of up to        *)
(* MaxExportPoints points are drawn with the pen or the marker; the export    *)
(* button and the save button are pressed at any time.                        *)

ExportSamples == {Pt(0, 0, 50), Pt(12, 16, 50)}

ExportPressTool ==
    /\ ~touching
    /\ \E tool \in {"pen", "marker"} : Becomes(setCurrentTool(Cur, tool))
    /\ UNCHANGED <<run, persist>>

ExportGrant ==
    /\ ~touching
    /\ Len(undoStack) < MaxExportStrokes
    /\ \E p \in ExportSamples :
          Becomes([onPanResponderGrant(Cur, p) EXCEPT !.touching = TRUE])
    /\ UNCHANGED <<run, persist>>

ExportMove ==
    /\ touching
    /\ currentStroke # Null
    /\ Len(currentStroke[1].points) < MaxExportPoints
    /\ \E p \in ExportSamples : Becomes(onPanResponderMove(Cur, p))
    /\ UNCHANGED <<run, persist>>

ExportRelease ==
    /\ touching
    /\ \E p \in ExportSamples :
          Becomes([onPanResponderRelease(Cur, p) EXCEPT !.touching = FALSE])
    /\ UNCHANGED <<run, persist>>

\* onPress={handleExport}
PressExport ==
    /\ persist' = handleExport(persist, Cur)
    /\ UNCHANGED <<docVars, run>>

NextExport ==
    \/ ExportPressTool
    \/ ExportGrant
    \/ ExportMove
    \/ ExportRelease
    \/ PressExport
    \/ SaveStart

SpecExport == Init /\ [][NextExport]_vars

----------------------------------------------------------------------------
(* The scenario of the thumbnail: one-point pen strokes are drawn at either   *)
(* sample until the document holds MaxThumbStrokes strokes, and the save      *)
(* button is pressed once, between two strokes.                               *)

ThumbSamples == {Pt(0, 0, 50), Pt(30, 40, 50)}

ThumbGrant ==
    /\ ~touching
    /\ ~persist.isSaving
    /\ Len(strokes) < MaxThumbStrokes
    /\ \E p \in ThumbSamples :
          Becomes([onPanResponderGrant(Cur, p) EXCEPT !.touching = TRUE])
    /\ UNCHANGED <<run, persist>>

ThumbRelease ==
    /\ touching
    /\ \E p \in ThumbSamples :
          Becomes([onPanResponderRelease(Cur, p) EXCEPT !.touching = FALSE])
    /\ UNCHANGED <<run, persist>>

ThumbSave ==
    /\ ~touching
    /\ SaveStart

NextThumb ==
    \/ ThumbGrant
    \/ ThumbRelease
    \/ ThumbSave

SpecThumb == Init /\ [][NextThumb]_vars

----------------------------------------------------------------------------
(* Properties *)

\* the strokes that existed before the last run.undos commits of the run
BeforeLastCommits == run.bases[Len(run.bases) - run.undos + 1]

\* C1 (as amended): in a run of commits followed by N undo calls, N between 1
\* and the capacity of the undo stack (50), strokes equals the strokes that
\* existed before the last N commits.
C1_CommitsThenUndos ==
    (run.live /\ run.undos >= 1 /\ run.undos <= HistoryCap)
        => strokes = BeforeLastCommits

\* C1, witness: 50 undo calls have followed a run of more than 50 commits
C1_Witness ==
    /\ run.live
    /\ Len(run.bases) > HistoryCap
    /\ run.undos = HistoryCap
    /\ strokes = BeforeLastCommits

\* C1 (as stated): for any N, N commits followed by N undo calls leave strokes
\* equal to the strokes that existed before the N commits.
C1_AnyN ==
    (run.live /\ run.undos >= 1) => strokes = BeforeLastCommits

\* C2 (as amended): endDrawing with an in-progress stroke, clear on a document
\* that is not empty, removeStroke with any id and deleteSelected with a
\* selection that is not empty leave the redo stack empty; endDrawing with no
\* in-progress stroke, clear on an empty document and deleteSelected with an
\* empty selection leave the redo stack as it was.
C2_MutationsClearFuture ==
    /\ endDrawing(Cur).redoStack = IF currentStroke # Null THEN << >> ELSE redoStack
    /\ clear(Cur).redoStack = IF Len(strokes) > 0 THEN << >> ELSE redoStack
    /\ \A id \in ApiIds(Cur) : removeStroke(Cur, id).redoStack = << >>
    /\ deleteSelected(Cur).redoStack = IF Len(selection) > 0 THEN << >> ELSE redoStack

\* C2, witness: the redo stack holds a snapshot while the document and the
\* selection are not empty, and clear and deleteSelected empty it
C2_Witness ==
    /\ Len(redoStack) > 0
    /\ Len(strokes) > 0
    /\ Len(selection) > 0
    /\ clear(Cur).redoStack = << >>
    /\ deleteSelected(Cur).redoStack = << >>

\* C2 (as stated): any call of endDrawing, clear, removeStroke or
\* deleteSelected leaves the redo stack empty, whatever the state.
C2_AnyCallClearsFuture ==
    /\ endDrawing(Cur).redoStack = << >>
    /\ clear(Cur).redoStack = << >>
    /\ \A id \in ApiIds(Cur) : removeStroke(Cur, id).redoStack = << >>
    /\ deleteSelected(Cur).redoStack = << >>

\* C3: every id in selection is the id of a stroke in strokes, and focusedId
\* is unset or the id of a stroke in strokes.
C3_SelectionReferencesStrokes ==
    /\ \A i \in 1..Len(selection) : selection[i] \in IdSet(strokes)
    /\ focusedId # NoId => focusedId \in IdSet(strokes)

\* C3, witness: a stroke has just been removed from a document in which
\* another stroke stays selected and focused
C3_Witness ==
    /\ Len(selection) > 0
    /\ focusedId # NoId
    /\ Len(undoStack) > 0
    /\ Len(undoStack[Len(undoStack)]) > Len(strokes)

\* C4: after saveStateToUndo the undo stack holds at most 50 snapshots, the
\* recorded one last; below 50 nothing is evicted, at 50 the oldest snapshot
\* is evicted and the others keep their order.
C4_RecordCapsPast ==
    LET after == saveStateToUndo(Cur, strokes).undoStack
        kept == Len(after) - 1
    IN  /\ Len(after) <= HistoryCap
        /\ Len(after) = Min(Len(undoStack) + 1, HistoryCap)
        /\ after[Len(after)] = strokes
        /\ \A i \in 1..kept : after[i] = undoStack[Len(undoStack) - kept + i]

\* C4, witness: the 51st commit of a run has evicted the oldest snapshot
C4_Witness ==
    /\ run.live
    /\ run.undos = 0
    /\ Len(run.bases) > HistoryCap
    /\ Len(undoStack) = HistoryCap
    /\ undoStack[1] = run.bases[Len(run.bases) - HistoryCap + 1]
    /\ undoStack[1] # run.bases[1]

\* C5 (as amended): no redo call makes the undo stack exceed 50 snapshots: a
\* redo is possible only after an undo has made room for its push.
C5_RedoWithinCap ==
    Len(redo(Cur).undoStack) <= HistoryCap

\* C5, witness: redo is called with 49 snapshots on the undo stack, and
\* leaves 50
C5_Witness ==
    /\ Len(undoStack) = HistoryCap - 1
    /\ Len(redoStack) > 0
    /\ Len(redo(Cur).undoStack) = HistoryCap

\* C5 (as stated), on the cycle it describes: from an undo stack that is full,
\* an undo followed by a redo leaves more than 50 snapshots on it.
C5_CycleExceedsCap ==
    Len(undoStack) = HistoryCap => Len(redo(undo(Cur)).undoStack) > HistoryCap

\* the ids of after are those of before without id, in the same order
IdsWithout(after, before, id) ==
    /\ \A i \in 1..Len(after) : after[i] # id
    /\ Len(after) = Cardinality({i \in 1..Len(before) : before[i] # id})
    /\ \A i \in 1..Len(before) : before[i] # id => \E j \in 1..Len(after) : after[j] = before[i]
    /\ \A i, j \in 1..Len(after) :
          i < j => \E a, b \in 1..Len(before) :
                      a < b /\ before[a] = after[i] /\ before[b] = after[j]

\* C6: undo right after a commit restores the strokes that existed before
\* the commit; redo right after an undo restores the strokes and the undo
\* stack that existed before the undo.
C6_UndoRedoRoundTrip ==
    /\ currentStroke # Null => undo(endDrawing(Cur)).strokes = strokes
    /\ Len(undoStack) > 0 =>
          /\ redo(undo(Cur)).strokes = strokes
          /\ redo(undo(Cur)).undoStack = undoStack

\* C6, witness: two strokes A and B have been drawn; undo gives [A] and redo
\* gives [A, B] again
C6_Witness ==
    /\ Len(strokes) = 2
    /\ Len(undoStack) = 2
    /\ undoStack[1] = << >>
    /\ undo(Cur).strokes = <<strokes[1]>>
    /\ redo(undo(Cur)).strokes = strokes

\* C7: undo with an empty undo stack changes nothing; otherwise it pops the
\* newest snapshot into strokes, pushes the current strokes onto the redo
\* stack and leaves selection empty and focusedId unset.  redo is the same
\* with the two stacks exchanged.
C7_UndoRedoContract ==
    /\ IF Len(undoStack) = 0
       THEN undo(Cur) = Cur
       ELSE /\ undo(Cur).strokes = undoStack[Len(undoStack)]
            /\ undo(Cur).undoStack = SubSeq(undoStack, 1, Len(undoStack) - 1)
            /\ undo(Cur).redoStack = redoStack \o <<strokes>>
            /\ undo(Cur).selection = << >>
            /\ undo(Cur).focusedId = NoId
    /\ IF Len(redoStack) = 0
       THEN redo(Cur) = Cur
       ELSE /\ redo(Cur).strokes = redoStack[Len(redoStack)]
            /\ redo(Cur).redoStack = SubSeq(redoStack, 1, Len(redoStack) - 1)
            /\ redo(Cur).undoStack = undoStack \o <<strokes>>
            /\ redo(Cur).selection = << >>
            /\ redo(Cur).focusedId = NoId

\* C7, witness: both stacks hold a snapshot while a stroke is selected and
\* focused, and undo empties the selection
C7_Witness ==
    /\ Len(undoStack) > 0
    /\ Len(redoStack) > 0
    /\ Len(selection) > 0
    /\ focusedId # NoId
    /\ undo(Cur).selection = << >>
    /\ undo(Cur).strokes # strokes

\* C8: endDrawing with an in-progress stroke records one snapshot, the
\* strokes before the commit, appends the stroke as the last element of
\* strokes and unsets currentStroke; with no in-progress stroke it changes
\* nothing.
C8_EndDrawingContract ==
    IF currentStroke = Null
    THEN endDrawing(Cur) = Cur
    ELSE /\ Len(undoStack) < HistoryCap =>
               endDrawing(Cur).undoStack = undoStack \o <<strokes>>
         /\ endDrawing(Cur).undoStack[Len(endDrawing(Cur).undoStack)] = strokes
         /\ endDrawing(Cur).strokes = strokes \o currentStroke
         /\ endDrawing(Cur).currentStroke = Null

\* C8, witness: a stroke is in progress over a document that holds a stroke
\* and a history, and endDrawing commits it after that stroke
C8_Witness ==
    /\ currentStroke # Null
    /\ Len(strokes) > 0
    /\ Len(undoStack) > 0
    /\ Len(redoStack) > 0
    /\ endDrawing(Cur).strokes[Len(strokes) + 1] = currentStroke[1]
    /\ endDrawing(Cur).redoStack = << >>

\* the styles a stroke can have: every BrushType but the two tools that draw
\* nothing
DrawnStyles == BrushType \ {"eraser", "select"}

AllDrawn(ss) == \A i \in 1..Len(ss) : ss[i].brushType \in DrawnStyles

\* C9: startDrawing changes nothing while the tool is the eraser or the
\* selection tool, and no stroke of strokes, of currentStroke or of a
\* snapshot of either stack has the style eraser or select.
C9_NoToolStyleStroke ==
    /\ currentTool \in {"eraser", "select"} =>
          \A p \in Samples : startDrawing(Cur, p) = Cur
    /\ AllDrawn(strokes)
    /\ AllDrawn(currentStroke)
    /\ \A i \in 1..Len(undoStack) : AllDrawn(undoStack[i])
    /\ \A i \in 1..Len(redoStack) : AllDrawn(redoStack[i])

\* C9, witness: the tool has been changed to the eraser or the selection
\* tool during a gesture that started a stroke, over a document with strokes
\* and snapshots on both stacks
C9_Witness ==
    /\ touching
    /\ currentStroke # Null
    /\ currentTool \in {"eraser", "select"}
    /\ Len(strokes) > 0
    /\ Len(undoStack) > 0
    /\ Len(redoStack) > 0
    /\ \A p \in Samples : startDrawing(Cur, p).currentStroke = currentStroke

\* C10: removeStroke(id) records one snapshot, the strokes before the
\* removal, removes the stroke of that id and no other, removes id from
\* selection and no other id, and unsets focusedId iff it is id; the order of
\* the other strokes and ids is kept.  The eraser removes through it.
C10_RemoveStrokeContract ==
    /\ \A id \in ApiIds(Cur) :
          /\ Len(undoStack) < HistoryCap =>
                removeStroke(Cur, id).undoStack = undoStack \o <<strokes>>
          /\ IdsWithout(Ids(removeStroke(Cur, id).strokes), Ids(strokes), id)
          /\ \A i \in 1..Len(removeStroke(Cur, id).strokes) :
                \E j \in 1..Len(strokes) : strokes[j] = removeStroke(Cur, id).strokes[i]
          /\ IdsWithout(removeStroke(Cur, id).selection, selection, id)
          /\ removeStroke(Cur, id).focusedId = IF focusedId = id THEN NoId ELSE focusedId
    /\ \A p \in Samples :
          LET nearId == findNearestStrokeId(p.x, p.y, strokes, EraserRadius)
          IN  (currentTool = "eraser" /\ nearId # NoId) =>
                  onPanResponderMove(Cur, p) = removeStroke(Cur, nearId)

\* C10, witness: two strokes are selected and one is focused; removing the
\* other one keeps the focus and the selection of the focused one
C10_Witness ==
    /\ Len(selection) = 2
    /\ focusedId # NoId
    /\ \E id \in IdSet(strokes) :
          /\ id # focusedId
          /\ removeStroke(Cur, id).focusedId = focusedId
          /\ removeStroke(Cur, id).selection = <<focusedId>>
          /\ Len(removeStroke(Cur, id).strokes) = Len(strokes) - 1

\* the elements of a sequence, as a set
Range(s) == {s[i] : i \in 1..Len(s)}

\* after is before without the elements whose id is in dropped, in the same
\* order
StrokesWithout(after, before, dropped) ==
    /\ \A i \in 1..Len(after) : after[i].id \notin dropped /\ after[i] \in Range(before)
    /\ Len(after) = Cardinality({i \in 1..Len(before) : before[i].id \notin dropped})
    /\ \A i \in 1..Len(before) : before[i].id \notin dropped => before[i] \in Range(after)
    /\ \A i, j \in 1..Len(after) :
          i < j => \E a, b \in 1..Len(before) :
                      a < b /\ before[a] = after[i] /\ before[b] = after[j]

\* C11: deleteSelected with an empty selection changes nothing; otherwise it
\* records one snapshot, removes the strokes whose id is in selection and no
\* other, leaves selection empty and focusedId unset, and one undo brings
\* the strokes back as they were.
C11_DeleteSelectedContract ==
    IF Len(selection) = 0
    THEN deleteSelected(Cur) = Cur
    ELSE /\ Len(undoStack) < HistoryCap =>
               deleteSelected(Cur).undoStack = undoStack \o <<strokes>>
         /\ StrokesWithout(deleteSelected(Cur).strokes, strokes, Range(selection))
         /\ deleteSelected(Cur).selection = << >>
         /\ deleteSelected(Cur).focusedId = NoId
         /\ undo(deleteSelected(Cur)).strokes = strokes
         /\ undo(deleteSelected(Cur)).undoStack = undoStack

\* C11, witness: the first of two strokes is selected and focused, the
\* second is not selected; deleteSelected leaves the second, and undo brings
\* both back
C11_Witness ==
    /\ Len(strokes) = 2
    /\ selection = <<strokes[1].id>>
    /\ focusedId = strokes[1].id
    /\ deleteSelected(Cur).strokes = <<strokes[2]>>
    /\ undo(deleteSelected(Cur)).strokes = strokes

\* C12: toggleSelection, toggleFocused, selectByRect and clearSelection leave
\* strokes and both stacks as they are.
C12_SelectionKeepsHistory ==
    /\ \A id \in ApiIds(Cur) :
          /\ toggleSelection(Cur, id).strokes = strokes
          /\ toggleSelection(Cur, id).undoStack = undoStack
          /\ toggleSelection(Cur, id).redoStack = redoStack
          /\ toggleFocused(Cur, id).strokes = strokes
          /\ toggleFocused(Cur, id).undoStack = undoStack
          /\ toggleFocused(Cur, id).redoStack = redoStack
    /\ \A p, q \in Samples :
          /\ selectByRect(Cur, [x1 |-> p.x, y1 |-> p.y, x2 |-> q.x, y2 |-> q.y]).strokes = strokes
          /\ selectByRect(Cur, [x1 |-> p.x, y1 |-> p.y, x2 |-> q.x, y2 |-> q.y]).undoStack = undoStack
          /\ selectByRect(Cur, [x1 |-> p.x, y1 |-> p.y, x2 |-> q.x, y2 |-> q.y]).redoStack = redoStack
    /\ clearSelection(Cur).strokes = strokes
    /\ clearSelection(Cur).undoStack = undoStack
    /\ clearSelection(Cur).redoStack = redoStack

\* C12, witness: both stacks hold a snapshot and a stroke is selected;
\* toggling another stroke changes the selection
C12_Witness ==
    /\ Len(undoStack) > 0
    /\ Len(redoStack) > 0
    /\ Len(selection) > 0
    /\ \E id \in IdSet(strokes) :
          /\ Len(toggleSelection(Cur, id).selection) = Len(selection) + 1
          /\ toggleSelection(Cur, id).redoStack = redoStack

\* the squared distance from p to the nearest point of a stroke
StrokeDist2(stroke, p) ==
    MinOf({Dist2(stroke.points[j].x, stroke.points[j].y, p.x, p.y) :
             j \in 1..Len(stroke.points)})

\* the positions in strokes of the strokes with a point at a distance below
\* radius from p
StrokesNear(p, radius) ==
    {i \in 1..Len(strokes) : StrokeDist2(strokes[i], p) < radius * radius}

\* the positions, among those of near, of the strokes nearest to p
Nearest(p, near) ==
    {i \in near : \A k \in near : StrokeDist2(strokes[i], p) <= StrokeDist2(strokes[k], p)}

\* the eraser passing over p removes a nearest stroke as one undoable action,
\* or changes nothing when no stroke is within its radius
ErasesNearest(d, p) ==
    LET near == {i \in 1..Len(d.strokes) :
                   StrokeDist2(d.strokes[i], p) < EraserRadius * EraserRadius}
        m == onPanResponderMove(d, p)
    IN  IF near = {}
        THEN m = d
        ELSE /\ \E i \in near :
                   /\ \A k \in near :
                         StrokeDist2(d.strokes[i], p) <= StrokeDist2(d.strokes[k], p)
                   /\ StrokesWithout(m.strokes, d.strokes, {d.strokes[i].id})
             /\ Len(m.strokes) = Len(d.strokes) - 1
             /\ Len(d.undoStack) < HistoryCap =>
                   m.undoStack = d.undoStack \o <<d.strokes>>
             /\ undo(m).strokes = d.strokes

\* C13: in eraser mode a pointer-move with a stroke within radius 20 removes
\* one stroke, a nearest one, and adds one history entry, so that two moves
\* that erase add two entries and need two undos; a move with no stroke
\* within the radius changes nothing.
C13_EraserMoveContract ==
    currentTool = "eraser" =>
        \A p \in GeoSamples :
            /\ ErasesNearest(Cur, p)
            /\ \A q \in GeoSamples : ErasesNearest(onPanResponderMove(Cur, p), q)
            /\ \A q \in GeoSamples :
                  Len(onPanResponderMove(onPanResponderMove(Cur, p), q).strokes)
                        = Len(strokes) - 2
                     => /\ Len(onPanResponderMove(onPanResponderMove(Cur, p), q).undoStack)
                              = Len(undoStack) + 2
                        /\ undo(onPanResponderMove(onPanResponderMove(Cur, p), q)).strokes
                              # strokes
                        /\ undo(undo(onPanResponderMove(onPanResponderMove(Cur, p), q))).strokes
                              = strokes

\* C13, witness: the eraser is over a document of two strokes at different
\* distances below 20 from a position where it removes the second, the
\* nearest, and then the first
C13_Witness ==
    /\ currentTool = "eraser"
    /\ touching
    /\ Len(strokes) = 2
    /\ \E p \in GeoSamples :
          /\ StrokesNear(p, EraserRadius) = {1, 2}
          /\ Nearest(p, {1, 2}) = {2}
          /\ onPanResponderMove(Cur, p).strokes = <<strokes[1]>>
          /\ onPanResponderMove(onPanResponderMove(Cur, p), p).strokes = << >>
          /\ Len(onPanResponderMove(onPanResponderMove(Cur, p), p).undoStack) = 2

\* the release at p is a tap: it is at less than DRAG_THRESHOLD from the
\* start of the gesture
IsTap(p) ==
    Dist2(p.x, p.y, dragStart[1].x, dragStart[1].y) < DRAG_THRESHOLD * DRAG_THRESHOLD

\* C14: a pointer-up in select mode at less than 5 units from the start of
\* the gesture toggles the membership in the selection of the stroke nearest
\* to the release point within a radius of 30 (appended when absent, removed
\* when present), and clears the focus exactly when that stroke is the
\* focused one; with no stroke within the radius the selection and the focus
\* are unchanged.
C14_TapTogglesNearest ==
    (currentTool = "select" /\ dragStart # Null) =>
        \A p \in GeoSamples :
            IsTap(p) =>
                LET near == StrokesNear(p, TapRadius)
                    r == onPanResponderRelease(Cur, p)
                IN  IF near = {}
                    THEN r.selection = selection /\ r.focusedId = focusedId
                    ELSE \E i \in Nearest(p, near) :
                            LET id == strokes[i].id
                            IN  /\ IF Includes(selection, id)
                                   THEN IdsWithout(r.selection, selection, id)
                                   ELSE r.selection = selection \o <<id>>
                                /\ r.focusedId = IF focusedId = id THEN NoId ELSE focusedId
                                /\ r.strokes = strokes

\* C14, witness: two strokes are selected and the second, the focused one, is
\* the nearest to a tap that finds both within 30 units; the tap leaves the
\* first selected and clears the focus
C14_Witness ==
    /\ currentTool = "select"
    /\ dragStart # Null
    /\ Len(strokes) = 2
    /\ selection = <<strokes[1].id, strokes[2].id>>
    /\ focusedId = strokes[2].id
    /\ \E p \in GeoSamples :
          /\ IsTap(p)
          /\ p # dragStart[1]
          /\ StrokesNear(p, TapRadius) = {1, 2}
          /\ StrokesNear(p, EraserRadius) = {}
          /\ Nearest(p, {1, 2}) = {2}
          /\ onPanResponderRelease(Cur, p).selection = <<strokes[1].id>>
          /\ onPanResponderRelease(Cur, p).focusedId = NoId

\* the intervals between a and b and between lo and hi, a and b in any order,
\* have a value in common
Overlap(a, b, lo, hi) == Max(Min(a, b), lo) <= Min(Max(a, b), hi)

\* the bounding box of the stroke and the rectangle spanned by the points ds
\* and p have a point in common
Intersects(stroke, ds, p) ==
    LET bb == getStrokeBoundingBox(stroke)
    IN  Overlap(ds.x, p.x, bb.minX, bb.maxX) /\ Overlap(ds.y, p.y, bb.minY, bb.maxY)

\* C15: a pointer-up in select mode at 5 units or more from the start of the
\* gesture replaces the selection by the ids of exactly the strokes whose
\* bounding box intersects the rectangle spanned by the start and the end of
\* the gesture, so that the ids selected before whose strokes do not
\* intersect it are dropped, and unsets the focus.
C15_DragReplacesSelection ==
    (currentTool = "select" /\ dragStart # Null) =>
        \A p \in GeoSamples :
            ~IsTap(p) =>
                LET r == onPanResponderRelease(Cur, p)
                IN  /\ Len(r.selection) =
                          Cardinality({i \in 1..Len(strokes) :
                                         Intersects(strokes[i], dragStart[1], p)})
                    /\ \A i \in 1..Len(strokes) :
                          Includes(r.selection, strokes[i].id)
                             <=> Intersects(strokes[i], dragStart[1], p)
                    /\ \A id \in Range(selection) :
                          (\A i \in 1..Len(strokes) :
                              strokes[i].id = id => ~Intersects(strokes[i], dragStart[1], p))
                             => ~Includes(r.selection, id)
                    /\ r.focusedId = NoId
                    /\ r.strokes = strokes

\* C15, witness: the first of two strokes is selected and focused, and a drag
\* ends where its rectangle intersects the bounding box of the second stroke
\* only; the release selects the second stroke alone and unsets the focus
C15_Witness ==
    /\ currentTool = "select"
    /\ dragStart # Null
    /\ Len(strokes) = 2
    /\ selection = <<strokes[1].id>>
    /\ focusedId = strokes[1].id
    /\ \E p \in GeoSamples :
          /\ ~IsTap(p)
          /\ p.x < dragStart[1].x
          /\ ~Intersects(strokes[1], dragStart[1], p)
          /\ Intersects(strokes[2], dragStart[1], p)
          /\ onPanResponderRelease(Cur, p).selection = <<strokes[2].id>>
          /\ onPanResponderRelease(Cur, p).focusedId = NoId

\* the SelectionRect from corner a to corner b
RectOf(a, b) == [x1 |-> a.x, y1 |-> a.y, x2 |-> b.x, y2 |-> b.y]

\* the selection rectangles: from a sample to a sample, along either diagonal
GeoRects ==
    {RectOf(p, q) : p, q \in GeoSamples}
        \cup {[x1 |-> p.x, y1 |-> q.y, x2 |-> q.x, y2 |-> p.y] : p, q \in GeoSamples}

\* the rectangle with its corners in the other order
Swapped(rect) == [x1 |-> rect.x2, y1 |-> rect.y2, x2 |-> rect.x1, y2 |-> rect.y1]

\* C16: rectangle selection does not depend on the order of the corners:
\* for the strokes of the document and every rectangle, selectByRect and
\* getStrokesInRect called with (x1, y1, x2, y2) select the same set of ids
\* as called with (x2, y2, x1, y1).
C16_CornerOrderIndependent ==
    \A rect \in GeoRects :
        /\ Range(selectByRect(Cur, rect).selection)
              = Range(selectByRect(Cur, Swapped(rect)).selection)
        /\ Range(getStrokesInRect(strokes, rect))
              = Range(getStrokesInRect(strokes, Swapped(rect)))

\* C16, witness: a drag in select mode ends to the left of and above its
\* start, and its rectangle selects one of the two strokes, the same one in
\* either order of the corners
C16_Witness ==
    /\ currentTool = "select"
    /\ dragStart # Null
    /\ Len(strokes) = 2
    /\ \E p \in GeoSamples :
          /\ p.x < dragStart[1].x
          /\ p.y < dragStart[1].y
          /\ Len(onPanResponderRelease(Cur, p).selection) = 1
          /\ selectByRect(Cur, RectOf(p, dragStart[1])).selection
                = onPanResponderRelease(Cur, p).selection
          /\ getStrokesInRect(strokes, RectOf(dragStart[1], p))
                = getStrokesInRect(strokes, RectOf(p, dragStart[1]))
          /\ Len(getStrokesInRect(strokes, RectOf(p, dragStart[1]))) = 1

\* C17: a pointer-cancel during a drawing gesture has the effect of a
\* pointer-up on the document: from every state with a stroke in progress,
\* onPanResponderTerminate and onPanResponderRelease produce the same strokes,
\* undo stack, redo stack and currentStroke.
C17_CancelAsRelease ==
    (touching /\ currentStroke # Null) =>
        \A p \in Samples :
            /\ onPanResponderTerminate(Cur).strokes = onPanResponderRelease(Cur, p).strokes
            /\ onPanResponderTerminate(Cur).undoStack = onPanResponderRelease(Cur, p).undoStack
            /\ onPanResponderTerminate(Cur).redoStack = onPanResponderRelease(Cur, p).redoStack
            /\ onPanResponderTerminate(Cur).currentStroke
                  = onPanResponderRelease(Cur, p).currentStroke

\* C18: a stored snapshot never changes after it is recorded. Every step
\* leaves each stack as it was, or drops its last entry, or appends the
\* strokes that were live before the step (dropping the oldest entries beyond
\* the cap), or empties the redo stack: the entries a stack keeps are the
\* stroke sequences it held. An undo makes the last entry of the undo stack,
\* as it was recorded, the live strokes, and a redo the last entry of the
\* redo stack (a redo stack of one entry is also emptied by a new edit).
C18_SnapshotsNeverChange ==
    [][ /\ \/ undoStack' = undoStack
           \/ undoStack' = ButLast(undoStack) /\ Len(undoStack) > 0
           \/ undoStack' = LastN(undoStack \o <<strokes>>, HistoryCap)
        /\ \/ redoStack' = redoStack
           \/ redoStack' = ButLast(redoStack) /\ Len(redoStack) > 0
           \/ redoStack' = redoStack \o <<strokes>>
           \/ redoStack' = << >>
        /\ (Len(undoStack) > 0 /\ undoStack' = ButLast(undoStack))
              => (strokes' = undoStack[Len(undoStack)] /\ redoStack' = redoStack \o <<strokes>>)
        /\ (Len(redoStack) > 1 /\ redoStack' = ButLast(redoStack))
              => (strokes' = redoStack[Len(redoStack)]
                  /\ undoStack' = LastN(undoStack \o <<strokes>>, HistoryCap))
      ]_vars

\* C18, witness: two snapshots in the undo stack and one in the redo stack,
\* all different from each other and from the live strokes, which have
\* changed since each of them was recorded; undo and redo yield them as
\* recorded
C18_Witness ==
    /\ Len(undoStack) = 2
    /\ Len(redoStack) = 1
    /\ Cardinality({undoStack[1], undoStack[2], redoStack[1], strokes}) = 4
    /\ undo(Cur).strokes = undoStack[2]
    /\ undo(undo(Cur)).strokes = undoStack[1]
    /\ redo(Cur).strokes = redoStack[1]

\* the step is one of handleSave or of the save in flight, and not the one
\* that ends a save whose storage calls all resolved
SaveStepNotDone ==
    /\ persist' # persist
    /\ ~(persist.pc # "idle" /\ persist'.pc = "idle" /\ persist'.alert = "saved")

\* the step ends a save on a storage call that rejected
SaveStepFailed ==
    persist.pc # "idle" /\ persist'.pc = "idle" /\ persist'.alert = "failed"

\* C19: a save one of whose storage calls fails leaves the in-memory state as
\* it was before the save: from its start to its failure no step of the save
\* changes the strokes, the history, the selection, the focus, the dirty
\* flag, the current drawing id of the screen or the list of drawings, and
\* the failure sets the saving flag back to false.
C19_FailedSaveChangesNothing ==
    [][ /\ SaveStepNotDone =>
              /\ UNCHANGED <<strokes, undoStack, redoStack, currentStroke,
                             selection, focusedId, isDirty>>
              /\ persist'.currentDrawingId = persist.currentDrawingId
              /\ persist'.drawings = persist.drawings
        /\ SaveStepFailed => (persist.isSaving /\ ~persist'.isSaving)
      ]_vars

\* C19, witness: the save of a new drawing with edits to save has failed
\* after its record was written: the document is still dirty, the screen has
\* no drawing id, the list of drawings is empty and the saving flag is false
C19_Witness ==
    /\ persist.alert = "failed"
    /\ persist.pc = "idle"
    /\ ~persist.isSaving
    /\ persist.currentDrawingId = Undefined
    /\ persist.drawings = << >>
    /\ \E id \in DrawingIds : persist.records[id] # Null
    /\ persist.index = << >>
    /\ isDirty
    /\ Len(strokes) > 0
    /\ Len(undoStack) > 0

\* C20: a save persists the strokes of the time of its call: the drawing
\* built by handleSave holds the strokes live at the call, stays as built
\* while the storage calls are in flight, whatever edits complete in between,
\* and is the record the setItem writes; no other step writes a record.
C20_SavePersistsStrokesOfCall ==
    [][ /\ (persist.pc = "idle" /\ persist'.pc = "setItem") =>
              persist'.job[1].strokes = strokes
        /\ (persist.pc # "idle" /\ persist'.pc # "idle") =>
              persist'.job = persist.job
        /\ (persist.pc = "setItem" /\ persist'.pc = "getItem") =>
              /\ persist'.records[persist.job[1].id] = persist.job
              /\ \A id \in DrawingIds \ {persist.job[1].id} :
                     persist'.records[id] = persist.records[id]
        /\ persist'.records # persist.records => persist.pc = "setItem"
      ]_vars

\* C20, witness: a stroke was committed while the setItem of a save is in
\* flight, and the record the setItem writes holds the strokes of the call,
\* without that stroke
C20_Witness ==
    /\ persist.pc = "setItem"
    /\ Len(strokes) = Len(persist.job[1].strokes) + 1
    /\ \A i \in 1..Len(persist.job[1].strokes) : strokes[i] = persist.job[1].strokes[i]
    /\ setItemResolved(persist, Cur).records[persist.job[1].id][1].strokes
          = persist.job[1].strokes
    /\ setItemResolved(persist, Cur).records[persist.job[1].id][1].strokes # strokes

\* the getItem in flight of loadDrawings is for a record that fails to decode
LoadingMalformed ==
    /\ persist.load # Null
    /\ persist.load[1].pc = "record"
    /\ IsMalformed(persist.records[Head(persist.load[1].ids)])

\* C21: when the stored record of a drawing of the index fails to decode,
\* loadDrawings aborts as a whole: the step that reads the record sets the
\* error, leaves the list of drawings as it was, without the drawings loaded
\* so far, and ends the load with the loading flag false; no step of a load
\* before its last changes the list.
C21_MalformedRecordAbortsLoad ==
    [][ /\ (LoadingMalformed /\ persist'.load # persist.load) =>
              /\ persist'.error # NoError
              /\ persist'.gallery = persist.gallery
              /\ ~persist'.isLoading
              /\ persist'.load = Null
        /\ (persist'.load # persist.load /\ persist'.load # Null) =>
              persist'.gallery = persist.gallery
      ]_vars

\* C21, witness: the list holds two drawings from an earlier load, a load
\* has read the first record of the index and is reading the second, which
\* is malformed; the read sets the error and keeps the list of two
C21_Witness ==
    /\ LoadingMalformed
    /\ persist.isLoading
    /\ Len(persist.gallery) = 2
    /\ Len(persist.load[1].loadedDrawings) = 1
    /\ Len(persist.load[1].ids) = 1
    /\ loadRecordResolved(persist).error # NoError
    /\ loadRecordResolved(persist).gallery = persist.gallery
    /\ ~loadRecordResolved(persist).isLoading

\* the strokes after a gesture of two samples, p then q, from the state d
DrawnFrom(d, p, q) ==
    onPanResponderRelease(onPanResponderMove(onPanResponderGrant(d, p), q), q).strokes

\* C22 (as amended): a calligraphy stroke drawn with the active width w is
\* stored with strokeWidth 1.5 * w, and each of its segments is rendered at
\* max(1, strokeWidth * average pressure of its two points * 1.5) with that
\* stored strokeWidth; drawn with the active width 10 through two points of
\* pressure 0.2 and 0.4, its one segment is rendered at
\* max(1, 15 * 0.3 * 1.5) = 6.75.
C22_CalligraphySegmentWidth ==
    (currentTool = "calligraphy" /\ ~touching /\ currentStroke = Null) =>
        \A p, q \in RenderSamples :
            LET ss == DrawnFrom(Cur, p, q)
                stroke == ss[Len(ss)]
            IN  /\ Len(ss) = Len(strokes) + 1
                /\ stroke.strokeWidth * 10 = (currentWidth * 10) * 15
                /\ Len(segmentWidths(stroke)) = 1
                /\ segmentWidths(stroke)[1]
                      = Max(WidthUnit, (currentWidth * 15) * (p.pressure + q.pressure) * 15)
                /\ (currentWidth = 10 /\ p.pressure = 20 /\ q.pressure = 40) =>
                      segmentWidths(stroke)[1] * 100 = 675 * WidthUnit

\* C22, witness: a calligraphy stroke of two points of pressure 0.2 and 0.4
\* drawn with the active width 10 is the last of the strokes: its
\* strokeWidth is 15 and its segment is rendered at 6.75
C22_Witness ==
    /\ Len(strokes) > 0
    /\ currentWidth = 10
    /\ strokes[Len(strokes)].brushType = "calligraphy"
    /\ strokes[Len(strokes)].strokeWidth = 150
    /\ Len(strokes[Len(strokes)].points) = 2
    /\ strokes[Len(strokes)].points[1].pressure = 20
    /\ strokes[Len(strokes)].points[2].pressure = 40
    /\ segmentWidths(strokes[Len(strokes)]) = <<135000>>

\* C22: a calligraphy stroke drawn with the active width 10 through two
\* points of pressure 0.2 and 0.4 renders its one segment at
\* max(1, 10 * 0.3 * 1.5) = 4.5.
C22_SegmentWidthFromActiveWidth ==
    (currentTool = "calligraphy" /\ ~touching /\ currentStroke = Null) =>
        \A p, q \in RenderSamples :
            (currentWidth = 10 /\ p.pressure = 20 /\ q.pressure = 40) =>
                segmentWidths(DrawnFrom(Cur, p, q)[Len(DrawnFrom(Cur, p, q))])[1] * 10
                    = 45 * WidthUnit

\* the number of snapshots of the two stacks of d
Snapshots(d) == Len(d.undoStack) + Len(d.redoStack)

\* C23: the undo stack and the redo stack hold at most 50 snapshots together,
\* hence the undo stack alone at most 50: undo and redo, when they act, move
\* one snapshot from one stack to the other, saveStateToUndo caps the undo
\* stack and empties the redo stack, and loadStrokes empties both.
C23_HistoryWithinCap ==
    /\ Snapshots(Cur) <= HistoryCap
    /\ Len(undoStack) <= HistoryCap
    /\ Snapshots(undo(Cur)) = Snapshots(Cur)
    /\ Snapshots(redo(Cur)) = Snapshots(Cur)
    /\ Len(undoStack) > 0 => Len(undo(Cur).redoStack) = Len(redoStack) + 1
    /\ Len(redoStack) > 0 => Len(redo(Cur).undoStack) = Len(undoStack) + 1
    /\ Snapshots(saveStateToUndo(Cur, strokes)) <= HistoryCap
    /\ saveStateToUndo(Cur, strokes).redoStack = << >>
    /\ Snapshots(loadStrokes(Cur, strokes)) = 0

\* C23, witness: after more than 50 commits and some undos the two stacks
\* hold 50 snapshots together, several of them on the redo stack
C23_Witness ==
    /\ Len(run.bases) > HistoryCap
    /\ Len(redoStack) > 1
    /\ Len(undoStack) > 1
    /\ Snapshots(Cur) = HistoryCap

\* C24: whenever the dirty flag is false, the live strokes are the strokes
\* written by the most recent save that succeeded, or the strokes loaded at
\* the opening of the screen or the empty document when no save succeeded,
\* whatever edits were made while a save was in flight.
C24_CleanMeansSaved ==
    ~isDirty => strokes = persist.lastSaved

\* C25: a save of a drawing that has a stored record keeps the createdAt of
\* that record: the record the setItem in flight writes holds the createdAt
\* of the record it replaces.
C25_ResaveKeepsCreatedAt ==
    (persist.pc = "setItem" /\ persist.records[persist.job[1].id] # Null) =>
        setItemResolved(persist, Cur).records[persist.job[1].id][1].createdAt
            = persist.records[persist.job[1].id][1].createdAt

\* C26: when a saveDrawing of one drawing and the deleteDrawing of other
\* drawings have run to their end, however their reads and writes of the
\* index interleaved, the index holds the id of the saved drawing and none
\* of the ids of the deleted drawings.
C26_SaveAndDeleteKeepIndex ==
    (/\ persist.pc = "idle"
     /\ persist.del = Null
     /\ persist.alert = "saved"
     /\ persist.deleted # {}
     /\ persist.currentDrawingId \notin persist.deleted) =>
        /\ Includes(persist.index, persist.currentDrawingId)
        /\ \A id \in persist.deleted : ~Includes(persist.index, id)

\* C27: a save that fails at one of its storage calls leaves the store as it
\* was: after the failure no stored record has an id absent from the index.
C27_FailedSaveLeavesStore ==
    (persist.pc = "idle" /\ persist.alert = "failed") =>
        \A id \in DrawingIds :
            persist.records[id] # Null => Includes(persist.index, id)

\* C28: focusedId is unset or a member of selection, and the functions that can
\* take the focused id out of the selection (toggleSelection and removeStroke
\* on that id, clearSelection, deleteSelected, selectByRect, clear, undo, redo)
\* leave focusedId unset when applied to the current state.
C28_FocusWithinSelection ==
    /\ focusedId = NoId \/ Includes(selection, focusedId)
    /\ focusedId # NoId =>
          /\ toggleSelection(Cur, focusedId).focusedId = NoId
          /\ removeStroke(Cur, focusedId).focusedId = NoId
          /\ clearSelection(Cur).focusedId = NoId
          /\ deleteSelected(Cur).focusedId = NoId
          /\ clear(Cur).focusedId = NoId
          /\ undo(Cur).focusedId = NoId \/ Len(undoStack) = 0
          /\ redo(Cur).focusedId = NoId \/ Len(redoStack) = 0
          /\ \A p \in Samples, q \in Samples :
                selectByRect(Cur, [x1 |-> p.x, y1 |-> p.y, x2 |-> q.x, y2 |-> q.y]).focusedId = NoId

\* a stroke is focused among two selected ones and taking it out of the
\* selection leaves the other selected
C28_Witness ==
    /\ focusedId # NoId
    /\ Len(selection) = 2
    /\ Len(toggleSelection(Cur, focusedId).selection) = 1
    /\ toggleSelection(Cur, focusedId).focusedId = NoId

\* C29: undo with a non-empty past and redo with a non-empty future change
\* strokes.
C29_HistoryEntriesAreChanges ==
    /\ Len(undoStack) > 0 => undo(Cur).strokes # strokes
    /\ Len(redoStack) > 0 => redo(Cur).strokes # strokes

\* both stacks hold a snapshot
C29_Witness ==
    /\ Len(undoStack) > 0
    /\ Len(redoStack) > 0
    /\ Len(strokes) > 0

\* the ids of a list of strokes are pairwise distinct
UniqueIds(ss) == \A i \in 1..Len(ss), j \in 1..Len(ss) : ss[i].id = ss[j].id => i = j

\* C30: the ids of strokes are pairwise distinct, the id of currentStroke is not
\* among them, and the ids inside every snapshot of the two stacks are pairwise
\* distinct and differ from the id of currentStroke.
C30_UniqueIdsAndCurrentApart ==
    /\ UniqueIds(strokes)
    /\ \A i \in 1..Len(undoStack) : UniqueIds(undoStack[i])
    /\ \A i \in 1..Len(redoStack) : UniqueIds(redoStack[i])
    /\ currentStroke # Null =>
          /\ currentStroke[1].id \notin IdSet(strokes)
          /\ \A i \in 1..Len(undoStack) : currentStroke[1].id \notin IdSet(undoStack[i])
          /\ \A i \in 1..Len(redoStack) : currentStroke[1].id \notin IdSet(redoStack[i])

\* a stroke is in progress while a snapshot of the past holds a stroke
C30_Witness ==
    /\ currentStroke # Null
    /\ \E i \in 1..Len(undoStack) : Len(undoStack[i]) > 0

\* the strokes committed in d: those of strokes and of every snapshot
Committed(ss, undos, redos) ==
    {ss[i] : i \in 1..Len(ss)}
    \cup UNION {{undos[k][i] : i \in 1..Len(undos[k])} : k \in 1..Len(undos)}
    \cup UNION {{redos[k][i] : i \in 1..Len(redos[k])} : k \in 1..Len(redos)}

\* the in-progress stroke and every committed stroke have the path of their points
PathsOfPoints ==
    /\ currentStroke # Null =>
          currentStroke[1].pathData = getSvgPathFromPoints(currentStroke[1].points)
    /\ \A s \in Committed(strokes, undoStack, redoStack) :
          s.pathData = getSvgPathFromPoints(s.points)

\* a step leaves every committed stroke as it was, wherever it is found after
\* the step, and commits the in-progress stroke as it was
CommittedUnchanged ==
    /\ \A s \in Committed(strokes, undoStack, redoStack) :
          \A t \in Committed(strokes', undoStack', redoStack') : s.id = t.id => s = t
    /\ currentStroke # Null =>
          \A t \in Committed(strokes', undoStack', redoStack') :
              t.id = currentStroke[1].id => t = currentStroke[1]

\* C31: the pathData of the in-progress stroke is getSvgPathFromPoints of all
\* its points after startDrawing and after every continueDrawing, and no step
\* (undo and redo included) changes the points or the pathData of a committed
\* stroke.
C31_PathDataFollowsPoints == []PathsOfPoints /\ [][CommittedUnchanged]_vars

\* a stroke of two points is in progress over a committed stroke that a redo
\* or an undo has restored
C31_Witness ==
    /\ currentStroke # Null
    /\ Len(currentStroke[1].points) = 2
    /\ Len(strokes) > 0
    /\ Len(redoStack) > 0

\* the radii findNearestStrokeId is called with
Radii == {EraserRadius, TapRadius}

\* C32: findNearestStrokeId returns the id of the stroke owning the point
\* closest to the query point among the points at a distance below radius, no
\* id when no point of a stroke is at a distance below radius (a point at
\* exactly radius is not within it), and on equal distances the stroke that
\* comes first in strokes.
C32_NearestStrokeOfScan ==
    \A p \in GeoSamples, radius \in Radii :
        LET near == StrokesNear(p, radius)
            found == findNearestStrokeId(p.x, p.y, strokes, radius)
        IN  IF near = {}
            THEN found = NoId
            ELSE found = strokes[MinOf(Nearest(p, near))].id

\* two strokes are equally near to a query point, within the radius, and the
\* scan returns the first; from another query point the only stroke points
\* are at the radius or beyond and the scan returns no id
C32_Witness ==
    /\ Len(strokes) = 2
    /\ strokes[1].id # strokes[2].id
    /\ \E p \in GeoSamples :
          /\ StrokesNear(p, EraserRadius) = {1, 2}
          /\ Nearest(p, {1, 2}) = {1, 2}
          /\ StrokeDist2(strokes[1], p) > 0
          /\ findNearestStrokeId(p.x, p.y, strokes, EraserRadius) = strokes[1].id
    /\ \E q \in GeoSamples :
          /\ StrokeDist2(strokes[1], q) = EraserRadius * EraserRadius
          /\ StrokesNear(q, EraserRadius) = {}
          /\ findNearestStrokeId(q.x, q.y, strokes, EraserRadius) = NoId

\* a stroke whose points form the bounding box (0,0)-(5,5), and the rectangle
\* (-1,-1,6,6)
StrokeC == appendPoint(newStroke(-3, Pt(0, 0, 50), "pen", "#000000", InitialWidth),
                       Pt(5, 5, 50))
RectC == [x1 |-> -1, y1 |-> -1, x2 |-> 6, y2 |-> 6]

\* the bounding box of the stroke and the rectangle, its corners in any order,
\* have a point in common, their borders included
BoxMeetsRect(stroke, rect) ==
    LET bb == getStrokeBoundingBox(stroke)
    IN  /\ Overlap(rect.x1, rect.x2, bb.minX, bb.maxX)
        /\ Overlap(rect.y1, rect.y2, bb.minY, bb.maxY)

\* the rectangle meets the bounding box of the stroke on a border only
TouchesOnly(stroke, rect) ==
    LET bb == getStrokeBoundingBox(stroke)
    IN  /\ BoxMeetsRect(stroke, rect)
        /\ \/ Max(Min(rect.x1, rect.x2), bb.minX) = Min(Max(rect.x1, rect.x2), bb.maxX)
           \/ Max(Min(rect.y1, rect.y2), bb.minY) = Min(Max(rect.y1, rect.y2), bb.maxY)

\* C33: selectByRect and getStrokesInRect select a stroke iff its bounding box
\* and the normalized rectangle overlap on both axes, borders included, so a
\* box that touches the rectangle at an edge or a corner and a one-point
\* stroke on the border are selected; the stroke with box (0,0)-(5,5) is
\* selected by the rectangle (-1,-1,6,6).
C33_InclusiveRectSelection ==
    /\ \A rect \in GeoRects \cup {RectC} :
          \A i \in 1..Len(strokes) :
              /\ Includes(selectByRect(Cur, rect).selection, strokes[i].id)
                    <=> BoxMeetsRect(strokes[i], rect)
              /\ Includes(getStrokesInRect(strokes, rect), strokes[i].id)
                    <=> BoxMeetsRect(strokes[i], rect)
    /\ Includes(selectByRect([Cur EXCEPT !.strokes = Append(strokes, StrokeC)],
                              RectC).selection, StrokeC.id)
    /\ getStrokesInRect(<<StrokeC>>, RectC) = <<StrokeC.id>>

\* a one-point stroke lies on the border of a rectangle that is not a point and
\* a two-point stroke has a box that touches another rectangle at a corner
\* only; each is selected
C33_Witness ==
    /\ Len(strokes) = 2
    /\ Len(strokes[1].points) = 1
    /\ Len(strokes[2].points) = 2
    /\ \E rect \in GeoRects :
          /\ rect.x1 # rect.x2 /\ rect.y1 # rect.y2
          /\ TouchesOnly(strokes[1], rect)
          /\ Includes(selectByRect(Cur, rect).selection, strokes[1].id)
    /\ \E rect \in GeoRects :
          LET bb == getStrokeBoundingBox(strokes[2])
          IN  /\ rect.x1 # rect.x2 /\ rect.y1 # rect.y2
              /\ Max(rect.x1, rect.x2) = bb.minX
              /\ Max(rect.y1, rect.y2) = bb.minY
              /\ Includes(selectByRect(Cur, rect).selection, strokes[2].id)

\* C34: toggleFocused(id) sets focusedId to id when focusedId is unset or is
\* another id, unsets it when focusedId is id, and changes nothing else:
\* selection, strokes, the two stacks and every other cell stay as they are.
C34_ToggleFocusedContract ==
    \A id \in ApiIds(Cur) :
        LET t == toggleFocused(Cur, id)
        IN  /\ focusedId = id => t.focusedId = NoId
            /\ focusedId # id => t.focusedId = id
            /\ t.selection = selection
            /\ t.strokes = strokes
            /\ t.undoStack = undoStack
            /\ t.redoStack = redoStack
            /\ t.currentStroke = currentStroke
            /\ t.isDirty = isDirty
            /\ [t EXCEPT !.focusedId = focusedId] = Cur

\* a stroke is focused among two selected ones, with a past and a future:
\* toggling the focus on it unsets the focus, toggling on the other moves it
C34_Witness ==
    /\ focusedId # NoId
    /\ Len(selection) = 2
    /\ Len(undoStack) > 0
    /\ toggleFocused(Cur, focusedId).focusedId = NoId
    /\ \E id \in IdSet(strokes) :
          id # focusedId /\ toggleFocused(Cur, id).focusedId = id

\* path is the path the claim describes for points: empty for no point; for
\* one point a move to it and a line to the point 0.1 below; for n >= 2 points
\* a move to the first point, n - 2 curves, the i-th with interior point i as
\* its control point and ending midway between interior point i and the point
\* after it, and a line to the last point.  Path coordinates are in tenths.
IsPathOf(path, points) ==
    LET n == Len(points)
    IN  IF n = 0 THEN path = << >>
        ELSE IF n = 1
        THEN /\ Len(path) = 2
             /\ path[1] = <<"M", points[1].x * PathUnit, points[1].y * PathUnit>>
             /\ path[2] = <<"L", points[1].x * PathUnit, points[1].y * PathUnit + 1>>
        ELSE /\ Len(path) = n
             /\ path[1] = <<"M", points[1].x * PathUnit, points[1].y * PathUnit>>
             /\ Cardinality({k \in 1..Len(path) : path[k][1] = "Q"}) = n - 2
             /\ \A i \in 1..(n - 2) :
                   /\ path[i + 1][1] = "Q"
                   /\ path[i + 1][2] = points[i + 1].x * PathUnit
                   /\ path[i + 1][3] = points[i + 1].y * PathUnit
                   /\ 2 * path[i + 1][4] = (points[i + 1].x + points[i + 2].x) * PathUnit
                   /\ 2 * path[i + 1][5] = (points[i + 1].y + points[i + 2].y) * PathUnit
             /\ path[n] = <<"L", points[n].x * PathUnit, points[n].y * PathUnit>>

\* C35: getSvgPathFromPoints gives the empty path for no point, a move and a
\* line to an offset of the point for one point, and for n >= 2 points a path
\* from the first point with exactly n - 2 quadratic segments (control point:
\* the interior point; endpoint: the midpoint to the next point) and a final
\* straight segment into the last point.  Checked on the path of the stroke in
\* progress, of every committed stroke, and of the points of the stroke in
\* progress with a sample appended or with none left.
C35_PathOfPoints ==
    /\ IsPathOf(getSvgPathFromPoints(<< >>), << >>)
    /\ \A i \in 1..Len(strokes) :
          IsPathOf(getSvgPathFromPoints(strokes[i].points), strokes[i].points)
    /\ currentStroke # Null =>
          /\ IsPathOf(currentStroke[1].pathData, currentStroke[1].points)
          /\ \A p \in PathSamples :
                IsPathOf(getSvgPathFromPoints(Append(currentStroke[1].points, p)),
                         Append(currentStroke[1].points, p))

\* a stroke of four points is in progress: its path has two curves, the first
\* ending at a midpoint with a half
C35_Witness ==
    /\ currentStroke # Null
    /\ Len(currentStroke[1].points) = 4
    /\ Len(currentStroke[1].pathData) = 4
    /\ currentStroke[1].pathData[2][1] = "Q"
    /\ currentStroke[1].pathData[3][1] = "Q"
    /\ currentStroke[1].pathData[2][4] % PathUnit = 5

\* the number of elements the claim gives to a stroke in the export
ElementsOf(s) ==
    IF s.brushType = "marker" /\ Len(s.points) >= 2 THEN Len(s.points) - 1 ELSE 1

\* the number of elements of the strokes before the i-th
RECURSIVE ElementsBefore(_, _)
ElementsBefore(ss, i) ==
    IF i <= 1 THEN 0 ELSE ElementsBefore(ss, i - 1) + ElementsOf(ss[i - 1])

\* the tags of svg between the background rectangle and the closing tag
StrokeElements(svg) == SubSeq(svg, 4, Len(svg) - 1)

\* what the export button writes in the current state
Exported == handleExport(persist, Cur).svgContent[1]

\* C36: in the SVG export a marker stroke of n >= 2 points is emitted as
\* exactly n - 1 line elements, the k-th from point k to point k + 1, a marker
\* stroke of one point and every stroke of another tool as exactly one path
\* element, and the elements of the strokes follow one another in the order
\* of the strokes in the document.
C36_ExportElementsPerStroke ==
    LET e == StrokeElements(Exported)
    IN  /\ Len(e) = ElementsBefore(strokes, Len(strokes) + 1)
        /\ \A i \in 1..Len(strokes) :
              LET s == strokes[i]
                  at == ElementsBefore(strokes, i)
              IN  IF s.brushType = "marker" /\ Len(s.points) >= 2
                  THEN \A k \in 1..(Len(s.points) - 1) :
                          /\ e[at + k][1] = "line"
                          /\ e[at + k][2] = s.points[k].x * ExportUnit
                          /\ e[at + k][3] = s.points[k].y * ExportUnit
                          /\ e[at + k][4] = s.points[k + 1].x * ExportUnit
                          /\ e[at + k][5] = s.points[k + 1].y * ExportUnit
                  ELSE /\ e[at + 1][1] = "path"
                       /\ e[at + 1][2] = s.pathData

\* the export was written for a marker stroke of three points followed by a
\* marker stroke of one point: two lines and one path
C36_Witness ==
    /\ Len(strokes) = 2
    /\ strokes[1].brushType = "marker" /\ Len(strokes[1].points) = 3
    /\ strokes[1].points[1] # strokes[1].points[2]
    /\ strokes[2].brushType = "marker" /\ Len(strokes[2].points) = 1
    /\ persist.svgContent = <<Exported>>
    /\ Len(StrokeElements(persist.svgContent[1])) = 3
    /\ StrokeElements(persist.svgContent[1])[1][1] = "line"
    /\ StrokeElements(persist.svgContent[1])[2][1] = "line"
    /\ StrokeElements(persist.svgContent[1])[3][1] = "path"

\* the union of the bounding boxes of the strokes of top, from their points
BoxOfPoints(top) ==
    LET xs == UNION {{top[i].points[j].x : j \in 1..Len(top[i].points)} : i \in 1..Len(top)}
        ys == UNION {{top[i].points[j].y : j \in 1..Len(top[i].points)} : i \in 1..Len(top)}
    IN  [minX |-> MinOf(xs), minY |-> MinOf(ys), maxX |-> MaxOf(xs), maxY |-> MaxOf(ys)]

\* thumb is the thumbnail the claim describes for the strokes ss, which are
\* not marker strokes of two points or more: the viewBox is the box of the
\* first ten strokes padded by 20 on each side and the elements are the paths
\* of the first ten strokes
IsThumbnailOf(thumb, ss) ==
    LET top == SubSeq(ss, 1, Min(Len(ss), 10))
        box == BoxOfPoints(top)
    IN  /\ thumb[1][1] = "svg"
        /\ thumb[1][2] = (box.minX - 20) * ThumbUnit
        /\ thumb[1][3] = (box.minY - 20) * ThumbUnit
        /\ thumb[1][4] = (box.maxX - box.minX + 40) * ThumbUnit
        /\ thumb[1][5] = (box.maxY - box.minY + 40) * ThumbUnit
        /\ Len(thumb) = Len(top) + 3
        /\ \A i \in 1..Len(top) :
              thumb[i + 2][1] = "path" /\ thumb[i + 2][2] = ss[i].pathData

\* C37: the thumbnail depends on the first 10 strokes of the document only:
\* it is the thumbnail of those ten, a stroke after the tenth adds no element
\* and does not move the viewBox, and the viewBox is the union of the bounding
\* boxes of those strokes padded by 20 units on each side (origin minX - 20,
\* minY - 20; size width + 40, height + 40).  It holds for the thumbnail of
\* the strokes of the screen and for the one stored in the drawing of a save.
C37_ThumbnailOfFirstTen ==
    /\ Len(strokes) > 0 =>
          /\ IsThumbnailOf(generateThumbnailSvg(strokes, Canvas.width, Canvas.height), strokes)
          /\ generateThumbnailSvg(strokes, Canvas.width, Canvas.height)
                = generateThumbnailSvg(SubSeq(strokes, 1, Min(Len(strokes), 10)),
                                       Canvas.width, Canvas.height)
          /\ Len(strokes) >= 10 =>
                \A p \in ThumbSamples :
                    generateThumbnailSvg(
                        Append(strokes, newStroke(nextId, p, "pen", "#000000", InitialWidth)),
                        Canvas.width, Canvas.height)
                      = generateThumbnailSvg(strokes, Canvas.width, Canvas.height)
    /\ (persist.job # Null /\ Len(persist.job[1].strokes) > 0) =>
          IsThumbnailOf(persist.job[1].thumbnailSvg, persist.job[1].strokes)

\* a drawing of eleven strokes is being saved: the first ten at one place, the
\* eleventh at another; its thumbnail has ten paths and the viewBox of a point
C37_Witness ==
    /\ Len(strokes) = 11
    /\ \A i \in 1..10 : strokes[i].points[1].x = 0
    /\ strokes[11].points[1].x = 30
    /\ persist.job # Null
    /\ persist.job[1].strokes = strokes
    /\ Len(persist.job[1].thumbnailSvg) = 13
    /\ persist.job[1].thumbnailSvg[1][4] = 40 * ThumbUnit

\* C38: for a document of no stroke the thumbnail is the empty string while
\* the export is the header, the svg tag of viewBox 0 0 width height, the
\* white background rectangle and no stroke element; a repeated export of the
\* same strokes writes the same content, and the thumbnail of a save is the
\* one of its strokes.
C38_EmptyDocumentOutputs ==
    /\ Len(strokes) = 0 =>
          /\ generateThumbnailSvg(strokes, Canvas.width, Canvas.height) = << >>
          /\ handleSave(persist, Cur).job # Null =>
                handleSave(persist, Cur).job[1].thumbnailSvg = << >>
          /\ Exported = << <<"?xml">>,
                            <<"svg", 0, 0, Canvas.width, Canvas.height,
                              Canvas.width, Canvas.height>>,
                            <<"rect", "#ffffff">>,
                            <<"/svg">> >>
    /\ handleExport(handleExport(persist, Cur), Cur) = handleExport(persist, Cur)
    /\ persist.job # Null =>
          persist.job[1].thumbnailSvg
             = generateThumbnailSvg(persist.job[1].strokes, Canvas.width, Canvas.height)

\* the empty document was exported and is being saved: four tags in the file
\* and the empty string as the thumbnail
C38_Witness ==
    /\ Len(strokes) = 0
    /\ persist.svgContent # Null
    /\ Len(persist.svgContent[1]) = 4
    /\ persist.job # Null
    /\ persist.job[1].strokes = << >>
    /\ persist.job[1].thumbnailSvg = << >>

====
